---- MODULE Spec2Model ----
(***************************************************************************)
(* Model of the database-access layer of github.com/blend/go-sdk/db as     *)
(* vendored by katwillmarry.com: the column metadata cache (MetaCache),    *)
(* ColumnCollection with Go slice semantics, and the Connection with its   *)
(* pool-open guard and StatementCache.                                     *)
(*                                                                         *)
(* Strings that the code inspects character by character (struct tags,     *)
(* field names, column names, type names) are sequences of one-character   *)
(* strings.                                                                *)
(***************************************************************************)
EXTENDS Integers, Sequences, FiniteSets, TLC

\* ------------------------------------------------------------------------
\* Bounds of the model
\* ------------------------------------------------------------------------

\* calls of getCachedColumnCollectionFromType each goroutine may make
MaxResolves == 2

\* ColumnCollection operations (Copy, Add, Remove, prefix change) explored
MaxCollOps == 4

\* ColumnCollection instances on the heap
MaxColls == 3

\* Connection operations (Open, Begin, Prepare, PrepareCached, Close) explored
MaxCalls == 3

\* calls of the derived-subset accessors and of ConcatWith explored
MaxSubCalls == 2

\* changes of a collection (Copy, Add) explored between accessor calls
MaxSubOps == 1

\* comma-separated pieces of a db tag
MaxPieces == 3

\* calls made on a mapped object (SetValue, ColumnValues, Create)
MaxSets == 2

\* fireEvent calls and operations made on a Connection
MaxFires == 2

\* calls made on a Request
MaxReqCalls == 3

\* resolutions a goroutine starts next to its calls of the Connection
MaxLockResolves == 1

\* interrupt signals sent to the process
MaxInterrupts == 2

Nil == "nil"

\* ------------------------------------------------------------------------
\* strings package, on sequences of characters
\* ------------------------------------------------------------------------

UpperChars == <<"A", "B", "C", "D", "E", "F", "G", "H", "I", "J", "K", "L", "M",
                "N", "O", "P", "Q", "R", "S", "T", "U", "V", "W", "X", "Y", "Z">>

LowerChars == <<"a", "b", "c", "d", "e", "f", "g", "h", "i", "j", "k", "l", "m",
                "n", "o", "p", "q", "r", "s", "t", "u", "v", "w", "x", "y", "z">>

ToLowerChar(c) ==
    IF \E i \in 1..Len(UpperChars) : UpperChars[i] = c
    THEN LowerChars[CHOOSE i \in 1..Len(UpperChars) : UpperChars[i] = c]
    ELSE c

\* strings.ToLower
ToLower(s) == [i \in 1..Len(s) |-> ToLowerChar(s[i])]

\* strings.HasPrefix
HasPrefix(s, pre) ==
    /\ Len(pre) <= Len(s)
    /\ SubSeq(s, 1, Len(pre)) = pre

\* strings.Contains
Contains(s, sub) ==
    \E i \in 0..(Len(s) - Len(sub)) : SubSeq(s, i + 1, i + Len(sub)) = sub

\* strings.Split(s, ","): the pieces between the commas; one piece (s itself)
\* when s holds no comma
RECURSIVE SplitComma(_)
SplitComma(s) ==
    IF \E i \in 1..Len(s) : s[i] = ","
    THEN LET i == CHOOSE k \in 1..Len(s) :
                      s[k] = "," /\ \A j \in 1..(k - 1) : s[j] # ","
         IN <<SubSeq(s, 1, i - 1)>> \o SplitComma(SubSeq(s, i + 1, Len(s)))
    ELSE <<s>>

\* strings.Join(pieces, ",")
RECURSIVE JoinComma(_)
JoinComma(pieces) ==
    IF Len(pieces) = 0 THEN <<>>
    ELSE IF Len(pieces) = 1 THEN pieces[1]
    ELSE pieces[1] \o <<",">> \o JoinComma(Tail(pieces))

\* ------------------------------------------------------------------------
\* Column and the field descriptor (struct tag) parser
\* ------------------------------------------------------------------------

\* the zero value of the Column struct
ZeroColumn ==
    [TableName |-> <<>>, FieldName |-> <<>>, FieldType |-> "", ColumnName |-> <<>>,
     Index |-> 0, IsPrimaryKey |-> FALSE, IsAuto |-> FALSE, IsNullable |-> FALSE,
     IsReadOnly |-> FALSE, IsJSON |-> FALSE]

\* the nil *Column
NilColumn == [nil |-> TRUE]

\* the parser with the name always taken from the first piece of the tag
NewColumnFromFieldTagFirstPiece(field) ==
    LET db == field.Tag
        col0 == [ZeroColumn EXCEPT !.FieldName = field.Name,
                                   !.ColumnName = ToLower(field.Name),
                                   !.FieldType = field.Type]
    IN IF db = <<"-">> THEN NilColumn
       ELSE IF db = <<>> THEN col0
       ELSE LET pieces == SplitComma(db)
                col1 == [col0 EXCEPT !.ColumnName = pieces[1]]
                args == ToLower(JoinComma(Tail(pieces)))
            IN [col1 EXCEPT
                  !.IsPrimaryKey = Contains(args, <<"p", "k">>),
                  !.IsAuto = \/ Contains(args, <<"s", "e", "r", "i", "a", "l">>)
                             \/ Contains(args, <<"a", "u", "t", "o">>),
                  !.IsReadOnly = Contains(args, <<"r", "e", "a", "d", "o", "n", "l", "y">>),
                  !.IsNullable = Contains(args, <<"n", "u", "l", "l", "a", "b", "l", "e">>),
                  !.IsJSON = Contains(args, <<"j", "s", "o", "n">>)]

\* NewColumnFromFieldTag: the column of a struct field, nil for the tag "-".
\* field.Tag is the value of the `db` key of the struct tag ("" when absent).
NewColumnFromFieldTag(field) ==
    LET db == field.Tag
        col0 == [ZeroColumn EXCEPT !.FieldName = field.Name,
                                   !.ColumnName = ToLower(field.Name),
                                   !.FieldType = field.Type]
    IN IF db = <<"-">> THEN NilColumn
       ELSE IF db = <<>> THEN col0
       ELSE LET pieces == SplitComma(db)
                col1 == IF ~HasPrefix(db, <<",">>)
                        THEN [col0 EXCEPT !.ColumnName = pieces[1]]
                        ELSE col0
                args == ToLower(JoinComma(Tail(pieces)))
            IN [col1 EXCEPT
                  !.IsPrimaryKey = Contains(args, <<"p", "k">>),
                  !.IsAuto = \/ Contains(args, <<"s", "e", "r", "i", "a", "l">>)
                             \/ Contains(args, <<"a", "u", "t", "o">>),
                  !.IsReadOnly = Contains(args, <<"r", "e", "a", "d", "o", "n", "l", "y">>),
                  !.IsNullable = Contains(args, <<"n", "u", "l", "l", "a", "b", "l", "e">>),
                  !.IsJSON = Contains(args, <<"j", "s", "o", "n">>)]

\* ------------------------------------------------------------------------
\* Mapped struct types (the inputs of the metadata cache)
\* ------------------------------------------------------------------------

Field(name, anonymous, type, tag) ==
    [Name |-> name, Anonymous |-> anonymous, Type |-> type, Tag |-> tag]

\* scaled-down relatives of myStruct of column_collection_test.go: a serial
\* primary key, an excluded field, an inferred name with a flag, an embedded
\* struct; "t3" and "t4" differ only in where type name and table name split;
\* "t5" has a pointer field and JSON columns of a struct type with two members
\* and of a pointer type
TypeDefs ==
    [t1 |-> [TypeName |-> <<"m">>, HasTableName |-> TRUE, TableNameValue |-> <<"s">>,
             Fields |-> << Field(<<"I", "d">>, FALSE, "int", <<"i", "d", ",", "p", "k", ",", "s", "e", "r", "i", "a", "l">>),
                           Field(<<"X">>, FALSE, "string", <<"-">>),
                           Field(<<"N">>, FALSE, "string", <<>>),
                           Field(<<"R">>, FALSE, "string", <<",", "r", "e", "a", "d", "o", "n", "l", "y">>) >>],
     t2 |-> [TypeName |-> <<"u">>, HasTableName |-> FALSE, TableNameValue |-> <<>>,
             Fields |-> << Field(<<"E">>, TRUE, "struct", <<>>),
                           Field(<<"K">>, FALSE, "int", <<"k", ",", "p", "k">>),
                           Field(<<"V">>, FALSE, "string", <<"v">>) >>],
     t3 |-> [TypeName |-> <<"a">>, HasTableName |-> TRUE, TableNameValue |-> <<"b">>,
             Fields |-> << Field(<<"A">>, FALSE, "int", <<"a", ",", "a", "u", "t", "o">>) >>],
     t4 |-> [TypeName |-> <<"a", "_", "b">>, HasTableName |-> FALSE, TableNameValue |-> <<>>,
             Fields |-> << Field(<<"B">>, FALSE, "string", <<>>),
                           Field(<<"C">>, FALSE, "string", <<"c", ",", "j", "s", "o", "n">>) >>],
     t5 |-> [TypeName |-> <<"r">>, HasTableName |-> FALSE, TableNameValue |-> <<>>,
             Fields |-> << Field(<<"I", "d">>, FALSE, "int", <<"i", "d", ",", "p", "k", ",", "s", "e", "r", "i", "a", "l">>),
                           Field(<<"W">>, FALSE, "*int", <<"w">>),
                           Field(<<"D">>, FALSE, "doc", <<"d", ",", "j", "s", "o", "n">>),
                           Field(<<"J">>, FALSE, "*int", <<"j", ",", "j", "s", "o", "n">>) >>]]

Types == DOMAIN TypeDefs

\* TableNameProvider: the type implements TableName()
IsTableNameProvider(t) == TypeDefs[t].HasTableName

\* TableNameByType: TableName() when the type supplies it, else the lower-cased
\* type name
TableNameByType(t) ==
    IF IsTableNameProvider(t) THEN TypeDefs[t].TableNameValue
    ELSE ToLower(TypeDefs[t].TypeName)

\* newColumnCacheKey
newColumnCacheKey(t) ==
    IF IsTableNameProvider(t)
    THEN TypeDefs[t].TypeName \o <<"_">> \o TypeDefs[t].TableNameValue
    ELSE TypeDefs[t].TypeName

\* t.NumField()
NumField(t) == Len(TypeDefs[t].Fields)

\* ------------------------------------------------------------------------
\* Go slices: a slice is a window [arr, len, cap] on a backing array of the
\* heap; a local slice value under construction is [elems, cap]
\* ------------------------------------------------------------------------

NoArr == 0

NilSlice == [arr |-> NoArr, len |-> 0, cap |-> 0]

\* the capacity append() gives a full slice of capacity c that must hold one
\* more element (runtime growslice, small slices: 0 -> 1, then doubling)
GrowCap(c) == IF c = 0 THEN 1 ELSE 2 * c

\* a backing array of capacity c holding elems, the rest zero values
MakeArray(elems, c) ==
    [i \in 1..c |-> IF i <= Len(elems) THEN elems[i] ELSE ZeroColumn]

\* cols = append(cols, col) on a local slice value [elems, cap]
AppendLocal(cols, col) ==
    [elems |-> Append(cols.elems, col),
     cap |-> IF Len(cols.elems) < cols.cap THEN cols.cap ELSE GrowCap(cols.cap)]

\* the field loop without the test of field.Anonymous
GenerateFieldKeepsAnonymous(t, index, cols) ==
    LET field == TypeDefs[t].Fields[index + 1]
        col == NewColumnFromFieldTag(field)
    IN IF col # NilColumn
       THEN AppendLocal(cols, [col EXCEPT !.Index = index,
                                          !.TableName = TableNameByType(t)])
       ELSE cols

\* the field loop with the place among the columns kept as the Index
GenerateFieldCountsColumns(t, index, cols) ==
    LET field == TypeDefs[t].Fields[index + 1]
        col == NewColumnFromFieldTag(field)
    IN IF ~field.Anonymous /\ col # NilColumn
       THEN AppendLocal(cols, [col EXCEPT !.Index = Len(cols.elems),
                                          !.TableName = TableNameByType(t)])
       ELSE cols

\* one iteration of the field loop of generateColumnCollectionForType, for the
\* zero-based field index: anonymous fields and fields tagged "-" add nothing
GenerateField(t, index, cols) ==
    LET field == TypeDefs[t].Fields[index + 1]
        col == NewColumnFromFieldTag(field)
    IN IF ~field.Anonymous /\ col # NilColumn
       THEN AppendLocal(cols, [col EXCEPT !.Index = index,
                                          !.TableName = TableNameByType(t)])
       ELSE cols

\* cols after the first n iterations of the field loop
RECURSIVE GenerateUpTo(_, _)
GenerateUpTo(t, n) ==
    IF n = 0 THEN [elems |-> <<>>, cap |-> 0]
    ELSE GenerateField(t, n - 1, GenerateUpTo(t, n - 1))

\* ------------------------------------------------------------------------
\* State
\* ------------------------------------------------------------------------

VARIABLES
    \* heap shared by the metadata cache and the collection operations
    arrays,        \* backing arrays: arrays[a] is a sequence of Columns (its capacity long)
    colls,         \* ColumnCollection instances: colls[c] is the struct's fields
    own,           \* per instance, what its own operations alone produce (history)
    ops,           \* ColumnCollection operations done so far
    \* metadata cache
    metaCache,     \* the map metaCache: cache key -> ColumnCollection instance
    metaCacheLock, \* holder of metaCacheLock, or Nil
    mpc,           \* per goroutine: where it is in getCachedColumnCollectionFromType
    mtype,         \* per goroutine: the type t being resolved
    mcols,         \* per goroutine: the local cols of generateColumnCollectionForType
    mindex,        \* per goroutine: the loop variable index
    mret,          \* per goroutine: the instance its last resolution returned
    mcalls,        \* per goroutine: resolutions started
    builds,        \* history: per key, how often generateColumnCollectionForType ran
    returned,      \* history: (key, type, instance) of every completed resolution
    \* Connection
    connection,        \* dbc.connection: the pool handle, NoPool when nil
    statementCache,    \* dbc.statementCache: the StatementCache, NoCache when nil
    useStatementCache, \* dbc.useStatementCache
    config,            \* dbc.config: nil, or whether its DSN opens and a schema is set
    connectionLock,    \* holder of dbc.connectionLock, or Nil
    dbUp,              \* the database answers every statement (else any may fail)
    pools,             \* heap of sql.DB pool handles
    caches,            \* heap of StatementCache instances
    stmts,             \* heap of sql.Stmt handles
    txs,               \* heap of sql.Tx handles
    hist,              \* the values written to (connection, statementCache), in order
    view,              \* per goroutine: the oldest write it may still read without a lock
    cpc,               \* per goroutine: where it is in its Connection call
    cop,               \* per goroutine: the call and its arguments
    cloc,              \* per goroutine: the locals of the call
    cres,              \* per goroutine: what its last completed call returned
    calls,             \* Connection calls started
    opens,             \* history: pools created by openNewSQLConnection
    closeCalls,        \* history: Close() calls started
    \* derived-subset accessor calls
    todo,          \* per goroutine: the shared-memory steps its accessor call has left
    acc,           \* per goroutine: the instance the last inner call returned
    tmp,           \* per goroutine: the receiver saved for ConcatWith
    scall,         \* per goroutine: the accessor call in progress (subset, receiver)
    scalls,        \* accessor calls started
    sret,          \* history: (receiver, subset, instance) of every completed call
    built,         \* history: (instance, receiver, subset, columns read, columns put) of every subset built
    \* field descriptor parsing
    tagName,       \* field.Name of the struct field being described
    tagPieces,     \* the comma-separated pieces its db tag is written from
    parsed,        \* the last NewColumnFromFieldTag call: its field and its result
    \* mapped objects
    object,        \* the mapped instance: its type, how it is passed, its fields' values
    sets,          \* calls on the object made so far
    lastSet,       \* the last SetValue call: column, value, fields before and after, error
    values,        \* the last ColumnValues call: columns, the object's fields, names, result
    created,       \* the last Create call: what was inserted, returned and set
    \* event emission
    log,           \* dbc.log: the logger attached to the Connection, or Nil
    events,        \* what the logger was handed, in order
    invocation,    \* the Invocation the last Invoke returned
    ran,           \* the last fireEvent call or operation: its result and what it emitted
    fires,         \* fireEvent calls and operations made so far
    \* http requests
    req,           \* the Request: its url, body and post data
    asked,         \* history: the (field, value) of every WithQueryString since the url was set
    sent,          \* the last Request() call: error, url string and body
    reqCalls,      \* calls made on the Request
    \* the program's main()
    mainPc,        \* the statement main() is at
    startPc,       \* the goroutine of app.Start(): the statement it is at
    stopPc,        \* the goroutine of app.Shutdown(): the statement it is at
    quit,          \* the channel quit: the signals buffered in it
    done,          \* the channel done: nil, open or closed
    notified,      \* signal.Notify(quit, os.Interrupt) was called
    process,       \* the process: running, or how it ended
    interrupts,    \* interrupt signals sent to the process so far
    timeline,      \* history: interrupts, the call and return of Shutdown, main's return
    results,       \* what app.Start() and app.Shutdown() returned
    fatals         \* the errors handed to the logger as fatal, in order

ccVars == <<arrays, colls, own, ops>>

metaVars == <<metaCache, metaCacheLock, mpc, mtype, mcols, mindex, mret, mcalls,
              builds, returned>>

connVars == <<connection, statementCache, useStatementCache, config, connectionLock,
              dbUp, pools, caches, stmts, txs, hist, view, cpc, cop, cloc, cres, calls,
              opens, closeCalls>>

subVars == <<todo, acc, tmp, scall, scalls, sret, built>>

tagVars == <<tagName, tagPieces, parsed>>

objVars == <<object, sets, lastSet, values, created>>

evVars == <<log, events, invocation, ran, fires>>

reqVars == <<req, asked, sent, reqCalls>>

mainVars == <<mainPc, startPc, stopPc, quit, done, notified, process, interrupts,
              timeline, results, fatals>>

vars == <<ccVars, metaVars, connVars, subVars, tagVars, objVars, evVars, reqVars, mainVars>>

\* ------------------------------------------------------------------------
\* ColumnCollection
\* ------------------------------------------------------------------------

\* the names of the memoized derived subsets of a ColumnCollection
SubsetNames == {"autos", "notAutos", "readOnly", "notReadOnly", "primaryKeys",
                "notPrimaryKeys", "writeColumns", "updateColumns"}

NoColl == 0

\* the columns a slice shows: the first len elements of its backing array
SliceElems(arrs, sl) ==
    IF sl.arr = NoArr THEN <<>> ELSE SubSeq(arrs[sl.arr], 1, sl.len)

\* cc.Columns()
Columns(c) == SliceElems(arrays, colls[c].columns)

\* cc.Len()
CollLen(c) == colls[c].columns.len

\* cc.HasColumn(columnName)
HasColumn(c, columnName) == columnName \in DOMAIN colls[c].lookup

\* the lookup the constructors build: ColumnName -> &columns[i], a later column
\* of the same name replacing an earlier one
LookupFromColumns(arrs, sl) ==
    LET elems == SliceElems(arrs, sl)
        names == {elems[i].ColumnName : i \in 1..Len(elems)}
    IN [n \in names |->
          <<"arr", sl.arr, CHOOSE i \in 1..Len(elems) :
                               /\ elems[i].ColumnName = n
                               /\ \A j \in (i + 1)..Len(elems) : elems[j].ColumnName # n>>]

\* newColumnCollectionWithPrefixFromColumns: the struct it returns; the slice
\* is taken as it is (same backing array), the memoized subsets are unset
newColumnCollectionWithPrefixFromColumns(arrs, prefix, sl) ==
    [columns |-> sl,
     lookup |-> LookupFromColumns(arrs, sl),
     columnPrefix |-> prefix,
     memo |-> [n \in SubsetNames |-> NoColl]]

\* newColumnCollectionFromColumns
newColumnCollectionFromColumns(arrs, sl) ==
    newColumnCollectionWithPrefixFromColumns(arrs, <<>>, sl)

\* the history record of a new instance showing columns elems: origin is the
\* type it was generated for (a copy keeps the origin of its source), source
\* the instance a copy was taken from
OwnOf(elems, prefix, origin) ==
    [columns |-> elems,
     names |-> {elems[i].ColumnName : i \in 1..Len(elems)},
     prefix |-> prefix,
     origin |-> origin,
     source |-> NoColl]

\* the heap after a local slice value is handed over: its backing array is
\* allocated (none for a nil slice)
ArraysWithLocal(arrs, cols) ==
    IF cols.cap = 0 THEN arrs ELSE Append(arrs, MakeArray(cols.elems, cols.cap))

SliceOfLocal(arrs, cols) ==
    IF cols.cap = 0 THEN NilSlice
    ELSE [arr |-> Len(arrs) + 1, len |-> Len(cols.elems), cap |-> cols.cap]

\* a copy that takes the memoized subsets of its source along
DoCopyKeepsMemo(c, prefix) ==
    /\ Len(colls) < MaxColls
    /\ ops < MaxCollOps
    /\ colls' = Append(colls,
                  [newColumnCollectionWithPrefixFromColumns(arrays, prefix, colls[c].columns)
                      EXCEPT !.memo = colls[c].memo])
    /\ own' = Append(own, [OwnOf(Columns(c), prefix, own[c].origin) EXCEPT !.source = c])
    /\ ops' = ops + 1
    /\ UNCHANGED <<arrays, metaVars, connVars, subVars, tagVars, objVars, evVars, reqVars, mainVars>>

\* Copy(), as CopyWithColumnPrefix(cc.columnPrefix)
DoCopy(c, prefix) ==
    /\ Len(colls) < MaxColls
    /\ ops < MaxCollOps
    /\ colls' = Append(colls,
                  newColumnCollectionWithPrefixFromColumns(arrays, prefix, colls[c].columns))
    /\ own' = Append(own, [OwnOf(Columns(c), prefix, own[c].origin) EXCEPT !.source = c])
    /\ ops' = ops + 1
    /\ UNCHANGED <<arrays, metaVars, connVars, subVars, tagVars, objVars, evVars, reqVars, mainVars>>

\* cc.Copy()
Copy(c) == DoCopy(c, colls[c].columnPrefix)

\* cc.CopyWithColumnPrefix(prefix)
CopyWithColumnPrefix(c, prefix) == DoCopy(c, prefix)

\* cc.Add(col): append to cc.columns (in place when the backing array has
\* room, else into a new array) and lookup[col.ColumnName] = &col
Add(c, col) ==
    LET sl == colls[c].columns
        inPlace == sl.len < sl.cap
        newArr == MakeArray(Append(SliceElems(arrays, sl), col), GrowCap(sl.cap))
        sl2 == IF inPlace THEN [sl EXCEPT !.len = sl.len + 1]
               ELSE [arr |-> Len(arrays) + 1, len |-> sl.len + 1, cap |-> GrowCap(sl.cap)]
        lk == colls[c].lookup
    IN /\ ops < MaxCollOps
       /\ arrays' = IF inPlace THEN [arrays EXCEPT ![sl.arr][sl.len + 1] = col]
                    ELSE Append(arrays, newArr)
       /\ colls' = [colls EXCEPT
                      ![c].columns = sl2,
                      ![c].lookup = [n \in DOMAIN lk \cup {col.ColumnName} |->
                                       IF n = col.ColumnName THEN <<"val", col>> ELSE lk[n]]]
       /\ own' = [own EXCEPT ![c].columns = Append(@, col),
                             ![c].names = @ \cup {col.ColumnName}]
       /\ ops' = ops + 1
       /\ UNCHANGED <<metaVars, connVars, subVars, tagVars, objVars, evVars, reqVars, mainVars>>

\* the columns of elems not named columnName, appended one by one to a nil slice
RECURSIVE RemoveLoop(_, _)
RemoveLoop(elems, columnName) ==
    IF Len(elems) = 0 THEN [elems |-> <<>>, cap |-> 0]
    ELSE LET rest == RemoveLoop(SubSeq(elems, 1, Len(elems) - 1), columnName)
             last == elems[Len(elems)]
         IN IF last.ColumnName # columnName THEN AppendLocal(rest, last) ELSE rest

RECURSIVE SelectSeqNot(_, _)
SelectSeqNot(elems, columnName) ==
    IF Len(elems) = 0 THEN <<>>
    ELSE IF Head(elems).ColumnName # columnName
         THEN <<Head(elems)>> \o SelectSeqNot(Tail(elems), columnName)
         ELSE SelectSeqNot(Tail(elems), columnName)

\* cc.Remove(columnName)
Remove(c, columnName) ==
    LET newColumns == RemoveLoop(Columns(c), columnName)
        lk == colls[c].lookup
    IN /\ ops < MaxCollOps
       /\ arrays' = ArraysWithLocal(arrays, newColumns)
       /\ colls' = [colls EXCEPT
                      ![c].columns = SliceOfLocal(arrays, newColumns),
                      ![c].lookup = [n \in DOMAIN lk \ {columnName} |-> lk[n]]]
       /\ own' = [own EXCEPT ![c].columns = SelectSeqNot(@, columnName),
                             ![c].names = @ \ {columnName}]
       /\ ops' = ops + 1
       /\ UNCHANGED <<metaVars, connVars, subVars, tagVars, objVars, evVars, reqVars, mainVars>>

\* newMeta.columnPrefix = prefix
SetColumnPrefix(c, prefix) ==
    /\ ops < MaxCollOps
    /\ colls[c].columnPrefix # prefix
    /\ colls' = [colls EXCEPT ![c].columnPrefix = prefix]
    /\ own' = [own EXCEPT ![c].prefix = prefix]
    /\ ops' = ops + 1
    /\ UNCHANGED <<arrays, metaVars, connVars, subVars, tagVars, objVars, evVars, reqVars, mainVars>>

\* the columns callers add
NewColumns ==
    { [ZeroColumn EXCEPT !.FieldName = <<"P">>, !.ColumnName = <<"p">>, !.Index = 7],
      [ZeroColumn EXCEPT !.FieldName = <<"Q">>, !.ColumnName = <<"q">>, !.Index = 8,
                         !.IsPrimaryKey = TRUE] }

\* the prefixes callers use
Prefixes == { <<>>, <<"f", "_">> }

\* the names callers remove: a present one or an added one
RemovableNames(c) == DOMAIN colls[c].lookup \cup {col.ColumnName : col \in NewColumns}

\* ------------------------------------------------------------------------
\* Connection: Open, Begin, Prepare, PrepareCached, Close, one step per lock
\* operation, read of a shared field and driver call
\* ------------------------------------------------------------------------

\* the goroutines calling the Connection concurrently
Callers == {"c1", "c2"}

\* the ids and statements PrepareCached and Prepare are called with
StmtIds == {"id1", "id2"}

Statements == {"select 1", "select 2"}

NoPool == 0

NoCache == 0

NoStmt == 0

NoTx == 0

\* error values: the nil error, and an error of a class, wrapped or not
NoErr == [class |-> "nil", wrapped |-> FALSE]

Err(class) == [class |-> class, wrapped |-> FALSE]

\* exception.New(err): nil for a nil error, else the error as an exception
\* (an error that is an exception already is returned as it is)
ExceptionNew(err) == IF err = NoErr THEN NoErr ELSE [err EXCEPT !.wrapped = TRUE]

\* the locals of a call before it runs
ZeroLoc ==
    [target |-> 0,        \* the pool or StatementCache the call read and works on
     newConn |-> NoPool,  \* dbConn of openNewSQLConnection
     key |-> "",          \* the id StatementCache.Prepare was given
     err |-> NoErr,       \* err of Close / of Open as its caller sees it
     opened |-> FALSE,    \* the call went through Open()
     viaCache |-> FALSE,  \* the call went through StatementCache.Prepare
     cacheClosed |-> FALSE]  \* the call's statementCache.Close() returned nil

NoCall == [name |-> "none", id |-> "", sql |-> "", tx |-> NoTx]

\* dbc.config values: nil, a config whose DSN sql.Open rejects, and usable
\* configs without and with a schema
Configs ==
    { [set |-> FALSE, dsnOk |-> FALSE, schema |-> FALSE],
      [set |-> TRUE, dsnOk |-> FALSE, schema |-> FALSE],
      [set |-> TRUE, dsnOk |-> TRUE, schema |-> FALSE],
      [set |-> TRUE, dsnOk |-> TRUE, schema |-> TRUE] }

\* the Connection New() returns, not yet used by any goroutine
ConnIdle ==
    /\ connection = NoPool
    /\ statementCache = NoCache
    /\ connectionLock = Nil
    /\ pools = <<>>
    /\ caches = <<>>
    /\ stmts = <<>>
    /\ txs = <<>>
    /\ hist = <<[connection |-> NoPool, statementCache |-> NoCache]>>
    /\ view = [p \in Callers |-> 1]
    /\ cpc = [p \in Callers |-> "idle"]
    /\ cop = [p \in Callers |-> NoCall]
    /\ cloc = [p \in Callers |-> ZeroLoc]
    /\ cres = [p \in Callers |-> [call |-> NoCall, val |-> 0, err |-> NoErr, loc |-> ZeroLoc]]
    /\ calls = 0
    /\ opens = 0
    /\ closeCalls = 0

\* the goroutines resolving types concurrently
Goroutines == {"g1", "g2"}

CacheKeys == {newColumnCacheKey(t) : t \in Types}

\* the local cols before the field loop: var cols []Column
NoCols == [elems |-> <<>>, cap |-> 0]

\* the nil map, and the map make() returns: made says whether the map exists
NilMap == [made |-> FALSE, entries |-> <<>>]

\* no resolution in progress, nothing cached
MetaIdle ==
    /\ metaCache = NilMap
    /\ metaCacheLock = Nil
    /\ mpc = [p \in Goroutines |-> "idle"]
    /\ mtype = [p \in Goroutines |-> Nil]
    /\ mcols = [p \in Goroutines |-> NoCols]
    /\ mindex = [p \in Goroutines |-> 0]
    /\ mret = [p \in Goroutines |-> NoColl]
    /\ mcalls = [p \in Goroutines |-> 0]
    /\ builds = [k \in CacheKeys |-> 0]
    /\ returned = {}

\* no accessor call
NoSCall == [n |-> "none", c |-> NoColl, other |-> NoColl]

\* the field names descriptors are parsed for
FieldNames == {<<"A", "b">>, <<"c">>}

\* no NewColumnFromFieldTag call made
NoParse == [Name |-> <<>>, Tag |-> <<>>, pieces |-> <<>>, col |-> NilColumn, done |-> FALSE]

\* no SetValue call made
NoSet ==
    [done |-> FALSE, col |-> NilColumn, value |-> [nil |-> TRUE], byRef |-> FALSE,
     before |-> <<>>, after |-> <<>>, err |-> "nil"]

\* no ColumnValues call made
NoValues == [done |-> FALSE, cols |-> <<>>, fields |-> <<>>, names |-> <<>>, out |-> <<>>]

\* no Create call made
NoCreate ==
    [done |-> FALSE, err |-> "nil", cols |-> <<>>, before |-> <<>>, after |-> <<>>,
     row |-> <<>>, supplied |-> {}]

\* no mapped object in use
NoObject == [t |-> "", byRef |-> FALSE, fields |-> <<>>]

\* no Invocation made
NoInvocation == [made |-> FALSE, tx |-> 0, fireEvents |-> FALSE]

\* what a call hands back: whether it faulted and the error it returned
Outcome(fault, err) == [fault |-> fault, err |-> err]

\* no fireEvent call or operation made
NoRun ==
    [done |-> FALSE, op |-> "", log |-> Nil, before |-> <<>>, after |-> <<>>,
     returned |-> Outcome(FALSE, NoErr), without |-> Outcome(FALSE, NoErr),
     emitted |-> <<>>]

\* the Connection New() returns has no logger; nothing emitted yet
EvIdle ==
    /\ log = Nil
    /\ events = <<>>
    /\ invocation = NoInvocation
    /\ ran = NoRun
    /\ fires = 0

\* url.Values: no value for any field
NoValuesFor == <<>>

\* the Request New() returns: url: &url.URL{}, no body, postData: make(url.Values)
NewRequest ==
    [url |-> [Path |-> <<>>, RawQuery |-> <<>>], body |-> <<>>, postData |-> NoValuesFor]

\* no Request() call made
NoSent == [done |-> FALSE, err |-> "nil", url |-> <<>>, body |-> <<>>]

ReqIdle ==
    /\ req = NewRequest
    /\ asked = {}
    /\ sent = NoSent
    /\ reqCalls = 0

\* main() not entered beyond its first statement, no goroutine started, no
\* channel made, the default disposition of the interrupt signal in force
MainIdle ==
    /\ mainPc = "read_config"
    /\ startPc = "none"
    /\ stopPc = "none"
    /\ quit = <<>>
    /\ done = "nil"
    /\ notified = FALSE
    /\ process = "running"
    /\ interrupts = 0
    /\ timeline = <<>>
    /\ results = [start |-> "none", shutdown |-> "none"]
    /\ fatals = <<>>

ObjIdle ==
    /\ object = NoObject
    /\ sets = 0
    /\ lastSet = NoSet
    /\ values = NoValues
    /\ created = NoCreate

\* no descriptor being written or parsed
TagIdle ==
    /\ tagName = <<"c">>
    /\ tagPieces = <<>>
    /\ parsed = NoParse

\* no accessor call in progress, no derived subset built
SubIdle ==
    /\ todo = [g \in Goroutines |-> <<>>]
    /\ acc = [g \in Goroutines |-> NoColl]
    /\ tmp = [g \in Goroutines |-> NoColl]
    /\ scall = [g \in Goroutines |-> NoSCall]
    /\ scalls = 0
    /\ sret = {}
    /\ built = {}

\* the heap holding only the collection resolved for type t
CCInit ==
    \E t \in Types :
        LET cols == GenerateUpTo(t, NumField(t))
        IN /\ arrays = ArraysWithLocal(<<>>, cols)
           /\ colls = <<newColumnCollectionFromColumns(ArraysWithLocal(<<>>, cols),
                                                       SliceOfLocal(<<>>, cols))>>
           /\ own = <<OwnOf(cols.elems, <<>>, t)>>
           /\ ops = 0
           /\ MetaIdle
           /\ SubIdle
           /\ TagIdle
           /\ ObjIdle
           /\ EvIdle
           /\ ReqIdle
           /\ MainIdle
           /\ ConnIdle
           /\ useStatementCache = FALSE
           /\ config = [set |-> TRUE, dsnOk |-> TRUE, schema |-> FALSE]
           /\ dbUp = TRUE

Instances == 1..Len(colls)

CCNext ==
    \/ \E c \in Instances : Copy(c)
    \/ \E c \in Instances, prefix \in Prefixes : CopyWithColumnPrefix(c, prefix)
    \/ \E c \in Instances, col \in NewColumns : Add(c, col)
    \/ \E c \in Instances : \E columnName \in RemovableNames(c) : Remove(c, columnName)
    \/ \E c \in Instances, prefix \in Prefixes : SetColumnPrefix(c, prefix)

\* the collection operations on the collection resolved for one type
SpecCC == CCInit /\ [][CCNext]_vars

\* C10: Copy() is independent: whatever Add, Remove and prefix changes are
\* applied to the copies, interleaved with Add and Remove on the source, the
\* source's prefix, column sequence and HasColumn answers are what the
\* source's own operations produced. The source is the first instance of the
\* heap, the collection resolved for the type.
C10_CopyIndependent ==
    /\ Head(colls).columnPrefix = Head(own).prefix
    /\ SliceElems(arrays, Head(colls).columns) = Head(own).columns
    /\ \A n \in Head(own).names \cup DOMAIN Head(colls).lookup :
           n \in DOMAIN Head(colls).lookup <=> n \in Head(own).names

\* ------------------------------------------------------------------------
\* MetaCache: getCachedColumnCollectionFromInstance / ...FromType, one step
\* per lock operation, map access and field-loop iteration
\* ------------------------------------------------------------------------

\* the cache key of the resolution goroutine p is in
KeyOf(p) == newColumnCacheKey(mtype[p])

\* identifier is a key of the map metaCache
IsCached(key) == key \in DOMAIN metaCache.entries

\* metaCache[key]
Cached(key) == metaCache.entries[key]

\* getCachedColumnCollectionFromInstance(object) for an object of type t:
\* computes the key and enters getCachedColumnCollectionFromType, reaching
\* metaCacheLock.Lock()
Resolve(p, t) ==
    /\ mpc[p] = "idle"
    /\ mcalls[p] < MaxResolves
    /\ mpc' = [mpc EXCEPT ![p] = "lock"]
    /\ mtype' = [mtype EXCEPT ![p] = t]
    /\ mcalls' = [mcalls EXCEPT ![p] = @ + 1]
    /\ UNCHANGED <<metaCache, metaCacheLock, mcols, mindex, mret, builds, returned, ccVars, connVars, subVars, tagVars, objVars, evVars, reqVars, mainVars>>

\* MetaLock without mutual exclusion: Lock() returns whoever holds the mutex
MetaLockNoExclusion(p) ==
    /\ mpc[p] = "lock"
    /\ metaCacheLock' = p
    /\ mpc' = [mpc EXCEPT ![p] = "check"]
    /\ UNCHANGED <<metaCache, mtype, mcols, mindex, mret, mcalls, builds, returned, ccVars, connVars, subVars, tagVars, objVars, evVars, reqVars, mainVars>>

\* metaCacheLock.Lock() returns: the mutex was free and p holds it
MetaLock(p) ==
    /\ mpc[p] = "lock"
    /\ metaCacheLock = Nil
    /\ metaCacheLock' = p
    /\ mpc' = [mpc EXCEPT ![p] = "check"]
    /\ UNCHANGED <<metaCache, mtype, mcols, mindex, mret, mcalls, builds, returned, ccVars, connVars, subVars, tagVars, objVars, evVars, reqVars, mainVars>>

\* MetaCheck that returns a cached collection without the deferred Unlock
MetaCheckKeepsLock(p) ==
    /\ mpc[p] = "check"
    /\ LET cache == [metaCache EXCEPT !.made = TRUE]
       IN IF KeyOf(p) \in DOMAIN cache.entries
          THEN /\ metaCache' = cache
               /\ mret' = [mret EXCEPT ![p] = cache.entries[KeyOf(p)]]
               /\ returned' = returned \cup
                    {[key |-> KeyOf(p), type |-> mtype[p], coll |-> cache.entries[KeyOf(p)]]}
               /\ mpc' = [mpc EXCEPT ![p] = "idle"]
               /\ UNCHANGED <<mcols, mindex, builds, metaCacheLock>>
          ELSE /\ metaCache' = cache
               /\ mcols' = [mcols EXCEPT ![p] = NoCols]
               /\ mindex' = [mindex EXCEPT ![p] = 0]
               /\ builds' = [builds EXCEPT ![KeyOf(p)] = @ + 1]
               /\ mpc' = [mpc EXCEPT ![p] = "generate"]
               /\ UNCHANGED <<mret, returned, metaCacheLock>>
    /\ UNCHANGED <<mtype, mcalls, ccVars, connVars, subVars, tagVars, objVars, evVars, reqVars, mainVars>>

\* the nil check of the map, the lookup, and on a hit the return with the
\* deferred Unlock; on a miss generateColumnCollectionForType is entered
MetaCheck(p) ==
    /\ mpc[p] = "check"
    /\ LET cache == [metaCache EXCEPT !.made = TRUE]
       IN IF KeyOf(p) \in DOMAIN cache.entries
          THEN /\ metaCache' = cache
               /\ mret' = [mret EXCEPT ![p] = cache.entries[KeyOf(p)]]
               /\ returned' = returned \cup
                    {[key |-> KeyOf(p), type |-> mtype[p], coll |-> cache.entries[KeyOf(p)]]}
               /\ metaCacheLock' = Nil
               /\ mpc' = [mpc EXCEPT ![p] = "idle"]
               /\ UNCHANGED <<mcols, mindex, builds>>
          ELSE /\ metaCache' = cache
               /\ mcols' = [mcols EXCEPT ![p] = NoCols]
               /\ mindex' = [mindex EXCEPT ![p] = 0]
               /\ builds' = [builds EXCEPT ![KeyOf(p)] = @ + 1]
               /\ mpc' = [mpc EXCEPT ![p] = "generate"]
               /\ UNCHANGED <<mret, returned, metaCacheLock>>
    /\ UNCHANGED <<mtype, mcalls, ccVars, connVars, subVars, tagVars, objVars, evVars, reqVars, mainVars>>

\* one iteration of the field loop of generateColumnCollectionForType
MetaGenerateField(p) ==
    /\ mpc[p] = "generate"
    /\ mindex[p] < NumField(mtype[p])
    /\ mcols' = [mcols EXCEPT ![p] = GenerateField(mtype[p], mindex[p], mcols[p])]
    /\ mindex' = [mindex EXCEPT ![p] = @ + 1]
    /\ UNCHANGED <<metaCache, metaCacheLock, mpc, mtype, mret, mcalls, builds, returned, ccVars, connVars, subVars, tagVars, objVars, evVars, reqVars, mainVars>>

\* the end of generateColumnCollectionForType and of the miss branch, given
\* the loop's exit test and whether metaCache[identifier] is assigned
MetaStoreWith(p, loopOver, stored) ==
    /\ mpc[p] = "generate"
    /\ loopOver
    /\ LET metadata == Len(colls) + 1
       IN /\ arrays' = ArraysWithLocal(arrays, mcols[p])
          /\ colls' = Append(colls,
                        newColumnCollectionFromColumns(ArraysWithLocal(arrays, mcols[p]),
                                                       SliceOfLocal(arrays, mcols[p])))
          /\ own' = Append(own, OwnOf(mcols[p].elems, <<>>, mtype[p]))
          /\ metaCache' = IF stored
                          THEN [metaCache EXCEPT !.entries =
                                  [k \in DOMAIN metaCache.entries \cup {KeyOf(p)} |->
                                     IF k = KeyOf(p) THEN metadata ELSE metaCache.entries[k]]]
                          ELSE metaCache
          /\ mret' = [mret EXCEPT ![p] = metadata]
          /\ returned' = returned \cup
               {[key |-> KeyOf(p), type |-> mtype[p], coll |-> metadata]}
    /\ metaCacheLock' = Nil
    /\ mpc' = [mpc EXCEPT ![p] = "idle"]
    /\ mcols' = [mcols EXCEPT ![p] = NoCols]
    /\ UNCHANGED <<mtype, mindex, mcalls, builds, ops, connVars, subVars, tagVars, objVars, evVars, reqVars, mainVars>>

\* MetaStore that returns the new collection without putting it in metaCache
MetaStoreNotCached(p) == MetaStoreWith(p, mindex[p] >= NumField(mtype[p]), FALSE)

\* MetaStore after a field loop that stops one field early
MetaStoreLoopShort(p) == MetaStoreWith(p, mindex[p] >= NumField(mtype[p]) - 1, TRUE)

\* the loop is over: newColumnCollectionFromColumns(cols), the store into
\* metaCache, and the return with the deferred Unlock
MetaStore(p) == MetaStoreWith(p, mindex[p] >= NumField(mtype[p]), TRUE)

\* nothing resolved yet, the heap empty
MetaInit ==
    /\ arrays = <<>>
    /\ colls = <<>>
    /\ own = <<>>
    /\ ops = 0
    /\ MetaIdle
    /\ SubIdle
    /\ TagIdle
    /\ ObjIdle
    /\ EvIdle
    /\ ReqIdle
    /\ MainIdle
    /\ ConnIdle
    /\ useStatementCache = FALSE
    /\ config = [set |-> TRUE, dsnOk |-> TRUE, schema |-> FALSE]
    /\ dbUp = TRUE

MetaNext ==
    \/ \E p \in Goroutines, t \in Types : Resolve(p, t)
    \/ \E p \in Goroutines : MetaLock(p)
    \/ \E p \in Goroutines : MetaCheck(p)
    \/ \E p \in Goroutines : MetaGenerateField(p)
    \/ \E p \in Goroutines : MetaStore(p)

\* goroutines resolving types concurrently through the metadata cache
SpecMeta == MetaInit /\ [][MetaNext]_vars

\* the columns a type maps to: one per field that is neither anonymous nor
\* tagged "-", in declaration order, Index the position of the field
RECURSIVE MappedColumnsFrom(_, _)
MappedColumnsFrom(t, i) ==
    IF i > NumField(t) THEN <<>>
    ELSE LET field == TypeDefs[t].Fields[i]
         IN IF field.Anonymous \/ field.Tag = <<"-">>
            THEN MappedColumnsFrom(t, i + 1)
            ELSE <<[NewColumnFromFieldTag(field) EXCEPT
                      !.Index = i - 1, !.TableName = TableNameByType(t)]>>
                 \o MappedColumnsFrom(t, i + 1)

MappedColumns(t) == MappedColumnsFrom(t, 1)

\* goroutine p is between Lock() and Unlock() of metaCacheLock
InMetaSection(p) == mpc[p] \in {"check", "generate"}

\* C1: for every cache key, whatever the interleaving of the resolutions,
\* generateColumnCollectionForType runs exactly once for the key (never twice,
\* and once as soon as a resolution of the key is being served), and every
\* resolution of the key returns the one instance stored for it.
C1_BuiltOncePerKey ==
    /\ \A k \in CacheKeys : builds[k] <= 1
    /\ \A k \in CacheKeys : IsCached(k) => builds[k] = 1
    /\ \A r \in returned : IsCached(r.key) /\ r.coll = Cached(r.key) /\ builds[r.key] = 1
    /\ \A r1, r2 \in returned : r1.key = r2.key => r1.coll = r2.coll

\* two goroutines have resolved the same key, one after or while the other did
C1_Witness ==
    \E p, q \in Goroutines :
        /\ p # q
        /\ mret[p] # NoColl /\ mret[p] = mret[q]
        /\ mtype[p] = mtype[q]
        /\ mcalls[p] = 1 /\ mcalls[q] = 1

\* C2: every collection that is in metaCache or was returned by a resolution
\* holds all the mapped columns of the type it was built for; the columns a
\* goroutine is still collecting are in no collection any caller can see.
C2_NoHalfBuilt ==
    /\ \A k \in CacheKeys :
           IsCached(k) =>
               Columns(Cached(k)) = MappedColumns(own[Cached(k)].origin)
    /\ \A r \in returned : Columns(r.coll) = MappedColumns(own[r.coll].origin)
    /\ \A p \in Goroutines :
           mret[p] # NoColl => Columns(mret[p]) = MappedColumns(own[mret[p]].origin)

\* a goroutine is half way through the field loop of a type while another
\* holds a collection returned earlier and waits for the lock
C2_Witness ==
    \E p, q \in Goroutines :
        /\ mpc[p] = "generate"
        /\ 0 < mindex[p] /\ mindex[p] < NumField(mtype[p])
        /\ Len(mcols[p].elems) > 0
        /\ mret[q] # NoColl
        /\ mpc[q] = "lock"

\* C5 as stated: lookups of cached keys do not serialize: a goroutine
\* resolving an already-cached key never stands at Lock() while another
\* goroutine doing a lookup of an already-cached key holds the lock.
C5_LookupsNeverWait ==
    \A p, q \in Goroutines :
        ~ ( /\ p # q
            /\ mpc[p] = "lock" /\ IsCached(KeyOf(p))
            /\ mpc[q] = "check" /\ IsCached(KeyOf(q))
            /\ metaCacheLock = q )

\* C5 amended: lookups of cached keys take metaCacheLock like first
\* resolutions: at most one goroutine is between Lock() and Unlock() at a
\* time and it is the holder, so a concurrent lookup waits; the lookup of a
\* cached key never runs generateColumnCollectionForType again.
C5_LookupsSerialized ==
    /\ \A p, q \in Goroutines : InMetaSection(p) /\ InMetaSection(q) => p = q
    /\ \A p \in Goroutines : InMetaSection(p) <=> metaCacheLock = p
    /\ \A p \in Goroutines : mpc[p] = "generate" => ~IsCached(KeyOf(p))

\* a lookup of a cached key waits at Lock() for another lookup of a cached key
C5_Witness ==
    \E p, q \in Goroutines :
        /\ p # q
        /\ mpc[p] = "lock" /\ IsCached(KeyOf(p))
        /\ mpc[q] = "check" /\ IsCached(KeyOf(q))
        /\ metaCacheLock = q

\* whether a driver call on pool k succeeds: never on a closed pool, always
\* while the database is up, either way otherwise
Outcomes(k) ==
    IF pools[k].closed THEN {FALSE}
    ELSE IF dbUp THEN {TRUE}
    ELSE {TRUE, FALSE}

\* the writes to (connection, statementCache) a goroutine may read without
\* holding connectionLock: none older than the last one it has seen
Readable(p) == view[p]..Len(hist)

\* the call of goroutine p returns (val, err)
Return(p, val, err, loc) ==
    /\ cpc' = [cpc EXCEPT ![p] = "idle"]
    /\ cres' = [cres EXCEPT ![p] = [call |-> cop[p], val |-> val, err |-> err, loc |-> loc]]
    /\ cloc' = [cloc EXCEPT ![p] = loc]

\* Open() returns err to its caller: to the application, or into Begin or
\* Prepare, which go on from there
OpenReturn(p, err, loc) ==
    IF cop[p].name = "Open"
    THEN Return(p, IF err = NoErr THEN 1 ELSE 0, err, loc)
    ELSE /\ cpc' = [cpc EXCEPT ![p] = IF cop[p].name = "Begin" THEN "begin_after_open"
                                      ELSE "prepare_after_open"]
         /\ cloc' = [cloc EXCEPT ![p] = [loc EXCEPT !.err = err, !.opened = TRUE]]
         /\ cres' = cres

\* a goroutine calls dbc.Open()
CallOpen(p) ==
    /\ cpc[p] = "idle"
    /\ calls < MaxCalls
    /\ calls' = calls + 1
    /\ cop' = [cop EXCEPT ![p] = [NoCall EXCEPT !.name = "Open"]]
    /\ cloc' = [cloc EXCEPT ![p] = ZeroLoc]
    /\ cpc' = [cpc EXCEPT ![p] = "open_check1"]
    /\ UNCHANGED <<connection, statementCache, useStatementCache, config, connectionLock, dbUp, pools, caches, stmts, txs, hist, view, cres, opens, closeCalls,
                   ccVars, metaVars, subVars, tagVars, objVars, evVars, reqVars, mainVars>>

\* Open, first check, without the lock: if dbc.connection == nil
OpenCheck1(p) ==
    /\ cpc[p] = "open_check1"
    /\ \E i \in Readable(p) :
         /\ view' = [view EXCEPT ![p] = i]
         /\ IF hist[i].connection = NoPool
            THEN /\ cpc' = [cpc EXCEPT ![p] = "open_lock"]
                 /\ UNCHANGED <<cloc, cres>>
            ELSE OpenReturn(p, NoErr, cloc[p])
    /\ UNCHANGED <<connection, statementCache, useStatementCache, config, connectionLock, dbUp, pools, caches, stmts, txs, hist, cop, calls, opens, closeCalls,
                   ccVars, metaVars, subVars, tagVars, objVars, evVars, reqVars, mainVars>>

\* dbc.connectionLock.Lock() returns: the mutex was free and p holds it; what
\* earlier holders wrote is visible to p from here on
OpenLock(p) ==
    /\ cpc[p] = "open_lock"
    /\ connectionLock = Nil
    /\ connectionLock' = p
    /\ view' = [view EXCEPT ![p] = Len(hist)]
    /\ cpc' = [cpc EXCEPT ![p] = "open_check2"]
    /\ UNCHANGED <<connection, statementCache, useStatementCache, config, dbUp, pools, caches, stmts, txs, hist, cop, cloc, cres, calls, opens, closeCalls,
                   ccVars, metaVars, subVars, tagVars, objVars, evVars, reqVars, mainVars>>

\* Open, second check, under the lock; when dbc.connection is still nil,
\* openNewSQLConnection up to its first statement: the config check, sql.Open,
\* dbc.statementCache = newStatementCache(dbConn), the pool settings
OpenCheck2With(p, recheck) ==
    /\ cpc[p] = "open_check2"
    /\ IF recheck /\ connection # NoPool
       THEN /\ connectionLock' = Nil
            /\ OpenReturn(p, NoErr, cloc[p])
            /\ UNCHANGED <<pools, caches, statementCache, hist, view, opens>>
       ELSE IF ~config.set
       THEN /\ connectionLock' = Nil
            /\ OpenReturn(p, ExceptionNew(Err("configuration unset")), cloc[p])
            /\ UNCHANGED <<pools, caches, statementCache, hist, view, opens>>
       ELSE IF ~config.dsnOk
       THEN /\ connectionLock' = Nil
            /\ OpenReturn(p, ExceptionNew(Err("sql.Open")), cloc[p])
            /\ UNCHANGED <<pools, caches, statementCache, hist, view, opens>>
       ELSE /\ pools' = Append(pools, [closed |-> FALSE])
            /\ caches' = Append(caches, [pool |-> Len(pools) + 1, cache |-> <<>>,
                                         lock |-> Nil, closes |-> 0])
            /\ statementCache' = Len(caches) + 1
            /\ hist' = Append(hist, [connection |-> connection,
                                     statementCache |-> Len(caches) + 1])
            /\ view' = [view EXCEPT ![p] = Len(hist) + 1]
            /\ opens' = opens + 1
            /\ cloc' = [cloc EXCEPT ![p].newConn = Len(pools) + 1]
            /\ cpc' = [cpc EXCEPT ![p] = IF config.schema THEN "exec_search_path"
                                         ELSE "exec_ping"]
            /\ UNCHANGED <<connectionLock, cres>>
    /\ UNCHANGED <<connection, useStatementCache, config, dbUp, stmts, txs, cop, calls, closeCalls,
                   ccVars, metaVars, subVars, tagVars, objVars, evVars, reqVars, mainVars>>

\* OpenCheck2 without the second check: a new pool whatever dbc.connection is
OpenCheck2NoRecheck(p) == OpenCheck2With(p, FALSE)

OpenCheck2(p) == OpenCheck2With(p, TRUE)

\* dbConn.Exec("SET search_path TO ...") returns; on an error
\* openNewSQLConnection and Open return it, the deferred Unlock runs
ExecSearchPath(p, ok) ==
    /\ cpc[p] = "exec_search_path"
    /\ ok \in Outcomes(cloc[p].newConn)
    /\ IF ok
       THEN /\ cpc' = [cpc EXCEPT ![p] = "exec_ping"]
            /\ UNCHANGED <<connectionLock, cloc, cres>>
       ELSE /\ connectionLock' = Nil
            /\ OpenReturn(p, ExceptionNew(Err("exec")), cloc[p])
    /\ UNCHANGED <<connection, statementCache, useStatementCache, config, dbUp, pools, caches, stmts, txs, hist, view, cop, calls, opens, closeCalls,
                   ccVars, metaVars, subVars, tagVars, objVars, evVars, reqVars, mainVars>>

\* the end of Open after the liveness check, given whether the deferred
\* Unlock runs on success
ExecPingWith(p, ok, unlocks) ==
    /\ cpc[p] = "exec_ping"
    /\ ok \in Outcomes(cloc[p].newConn)
    /\ IF ok
       THEN /\ connection' = cloc[p].newConn
            /\ hist' = Append(hist, [connection |-> cloc[p].newConn,
                                     statementCache |-> statementCache])
            /\ view' = [view EXCEPT ![p] = Len(hist) + 1]
            /\ connectionLock' = IF unlocks THEN Nil ELSE connectionLock
            /\ OpenReturn(p, NoErr, cloc[p])
       ELSE /\ connectionLock' = Nil
            /\ OpenReturn(p, ExceptionNew(Err("exec")), cloc[p])
            /\ UNCHANGED <<connection, hist, view>>
    /\ UNCHANGED <<statementCache, useStatementCache, config, dbUp, pools, caches, stmts, txs, cop, calls, opens, closeCalls,
                   ccVars, metaVars, subVars, tagVars, objVars, evVars, reqVars, mainVars>>

\* ExecPing that returns from Open with connectionLock still held
ExecPingKeepsLock(p, ok) == ExecPingWith(p, ok, FALSE)

\* dbConn.Exec("select 'ok!'") returns; on success openNewSQLConnection
\* returns dbConn, Open assigns dbc.connection and returns, the deferred
\* Unlock runs; on an error Open returns it, the deferred Unlock runs
ExecPing(p, ok) == ExecPingWith(p, ok, TRUE)

\* a goroutine calls dbc.Begin()
CallBegin(p) ==
    /\ cpc[p] = "idle"
    /\ calls < MaxCalls
    /\ calls' = calls + 1
    /\ cop' = [cop EXCEPT ![p] = [NoCall EXCEPT !.name = "Begin"]]
    /\ cloc' = [cloc EXCEPT ![p] = ZeroLoc]
    /\ cpc' = [cpc EXCEPT ![p] = "begin_check"]
    /\ UNCHANGED <<connection, statementCache, useStatementCache, config, connectionLock, dbUp, pools, caches, stmts, txs, hist, view, cres, opens, closeCalls,
                   ccVars, metaVars, subVars, tagVars, objVars, evVars, reqVars, mainVars>>

\* Begin: if dbc.connection != nil, read without the lock; the pool read is
\* the one dbc.connection.Begin() is then called on, else Open() is called
BeginCheck(p) ==
    /\ cpc[p] = "begin_check"
    /\ \E i \in Readable(p) :
         /\ view' = [view EXCEPT ![p] = i]
         /\ IF hist[i].connection # NoPool
            THEN /\ cloc' = [cloc EXCEPT ![p].target = hist[i].connection]
                 /\ cpc' = [cpc EXCEPT ![p] = "begin_tx"]
            ELSE /\ cpc' = [cpc EXCEPT ![p] = "open_check1"]
                 /\ cloc' = cloc
    /\ UNCHANGED <<connection, statementCache, useStatementCache, config, connectionLock, dbUp, pools, caches, stmts, txs, hist, cop, cres, calls, opens, closeCalls,
                   ccVars, metaVars, subVars, tagVars, objVars, evVars, reqVars, mainVars>>

\* Begin after Open() returned, given whether the error of Open is looked at;
\* connection.Begin() on the nil *Connection a failed Open returns faults
BeginAfterOpenWith(p, checksErr) ==
    /\ cpc[p] = "begin_after_open"
    /\ IF checksErr /\ cloc[p].err # NoErr
       THEN Return(p, NoTx, ExceptionNew(cloc[p].err), cloc[p])
       ELSE /\ cpc' = [cpc EXCEPT ![p] = IF cloc[p].err # NoErr THEN "panic"
                                         ELSE "begin_check"]
            /\ UNCHANGED <<cloc, cres>>
    /\ UNCHANGED <<connection, statementCache, useStatementCache, config, connectionLock, dbUp, pools, caches, stmts, txs, hist, view, cop, calls, opens, closeCalls,
                   ccVars, metaVars, subVars, tagVars, objVars, evVars, reqVars, mainVars>>

\* BeginAfterOpen that goes on to begin the transaction whatever Open returned
BeginAfterOpenIgnoresErr(p) == BeginAfterOpenWith(p, FALSE)

\* Begin after Open() returned: the error of Open is returned, wrapped; with
\* no error connection.Begin() is called, which is Begin again, on dbc
BeginAfterOpen(p) == BeginAfterOpenWith(p, TRUE)

\* dbc.connection.Begin() returns: (tx, exception.New(txErr))
BeginTx(p, ok) ==
    /\ cpc[p] = "begin_tx"
    /\ ok \in Outcomes(cloc[p].target)
    /\ IF ok
       THEN /\ txs' = Append(txs, [pool |-> cloc[p].target])
            /\ Return(p, Len(txs) + 1, ExceptionNew(NoErr), cloc[p])
       ELSE /\ txs' = txs
            /\ Return(p, NoTx, ExceptionNew(Err("begin")), cloc[p])
    /\ UNCHANGED <<connection, statementCache, useStatementCache, config, connectionLock, dbUp, pools, caches, stmts, hist, view, cop, calls, opens, closeCalls,
                   ccVars, metaVars, subVars, tagVars, objVars, evVars, reqVars, mainVars>>

\* the handle a successful prepare of the call of p creates
NewStmt(p, pool, cache) ==
    [sql |-> cop[p].sql, id |-> cop[p].id, tx |-> cop[p].tx, pool |-> pool,
     cache |-> cache, closed |-> FALSE]

\* a goroutine calls dbc.Prepare(statement, tx): with a transaction it is at
\* tx.Prepare, without one at Open()
CallPrepare(p, statement, tx) ==
    /\ cpc[p] = "idle"
    /\ calls < MaxCalls
    /\ calls' = calls + 1
    /\ cop' = [cop EXCEPT ![p] = [NoCall EXCEPT !.name = "Prepare", !.sql = statement,
                                                !.tx = tx]]
    /\ cloc' = [cloc EXCEPT ![p] = ZeroLoc]
    /\ cpc' = [cpc EXCEPT ![p] = IF tx # NoTx THEN "tx_prepare" ELSE "open_check1"]
    /\ UNCHANGED <<connection, statementCache, useStatementCache, config, connectionLock, dbUp, pools, caches, stmts, txs, hist, view, cres, opens, closeCalls,
                   ccVars, metaVars, subVars, tagVars, objVars, evVars, reqVars, mainVars>>

\* tx.Prepare(statement) returns: (stmt, nil) or (nil, exception.New(err))
TxPrepare(p, ok) ==
    /\ cpc[p] = "tx_prepare"
    /\ ok \in Outcomes(txs[cop[p].tx].pool)
    /\ IF ok
       THEN /\ stmts' = Append(stmts, NewStmt(p, txs[cop[p].tx].pool, NoCache))
            /\ Return(p, Len(stmts) + 1, NoErr, cloc[p])
       ELSE /\ stmts' = stmts
            /\ Return(p, NoStmt, ExceptionNew(Err("prepare")), cloc[p])
    /\ UNCHANGED <<connection, statementCache, useStatementCache, config, connectionLock, dbUp, pools, caches, txs, hist, view, cop, calls, opens, closeCalls,
                   ccVars, metaVars, subVars, tagVars, objVars, evVars, reqVars, mainVars>>

\* Prepare after Open() returned: the error of Open is returned, wrapped; with
\* no error dbConn.connection is read for dbConn.connection.Prepare(statement)
PrepareAfterOpen(p) ==
    /\ cpc[p] = "prepare_after_open"
    /\ IF cloc[p].err # NoErr
       THEN /\ Return(p, NoStmt, ExceptionNew(cloc[p].err), cloc[p])
            /\ view' = view
       ELSE \E i \in Readable(p) :
              /\ view' = [view EXCEPT ![p] = i]
              /\ cloc' = [cloc EXCEPT ![p].target = hist[i].connection]
              /\ cpc' = [cpc EXCEPT ![p] = "db_prepare"]
              /\ cres' = cres
    /\ UNCHANGED <<connection, statementCache, useStatementCache, config, connectionLock, dbUp, pools, caches, stmts, txs, hist, cop, calls, opens, closeCalls,
                   ccVars, metaVars, subVars, tagVars, objVars, evVars, reqVars, mainVars>>

\* dbConn.connection.Prepare(statement) returns
DbPrepare(p, ok) ==
    /\ cpc[p] = "db_prepare"
    /\ ok \in Outcomes(cloc[p].target)
    /\ IF ok
       THEN /\ stmts' = Append(stmts, NewStmt(p, cloc[p].target, NoCache))
            /\ Return(p, Len(stmts) + 1, NoErr, cloc[p])
       ELSE /\ stmts' = stmts
            /\ Return(p, NoStmt, ExceptionNew(Err("prepare")), cloc[p])
    /\ UNCHANGED <<connection, statementCache, useStatementCache, config, connectionLock, dbUp, pools, caches, txs, hist, view, cop, calls, opens, closeCalls,
                   ccVars, metaVars, subVars, tagVars, objVars, evVars, reqVars, mainVars>>

\* the entry of PrepareCached, given whether the transaction is looked at
\* before the statement cache
CallPrepareCachedWith(p, id, statement, tx, txFirst) ==
    /\ cpc[p] = "idle"
    /\ calls < MaxCalls
    /\ calls' = calls + 1
    /\ cop' = [cop EXCEPT ![p] = [name |-> "PrepareCached", id |-> id, sql |-> statement,
                                  tx |-> tx]]
    /\ cloc' = [cloc EXCEPT ![p] = ZeroLoc]
    /\ cpc' = [cpc EXCEPT ![p] = IF txFirst /\ tx # NoTx THEN "tx_prepare"
                                 ELSE IF useStatementCache THEN "cache_read"
                                 ELSE IF tx # NoTx THEN "tx_prepare"
                                 ELSE "open_check1"]
    /\ UNCHANGED <<connection, statementCache, useStatementCache, config, connectionLock, dbUp, pools, caches, stmts, txs, hist, view, cres, opens, closeCalls,
                   ccVars, metaVars, subVars, tagVars, objVars, evVars, reqVars, mainVars>>

\* PrepareCached that looks at useStatementCache before the transaction
CallPrepareCachedCacheFirst(p, id, statement, tx) ==
    CallPrepareCachedWith(p, id, statement, tx, FALSE)

\* a goroutine calls dbc.PrepareCached(id, statement, tx): with a transaction
\* it is at tx.Prepare; without one, at dbc.statementCache.Prepare when
\* useStatementCache is set, else in dbc.Prepare(statement, nil), at Open()
CallPrepareCached(p, id, statement, tx) ==
    CallPrepareCachedWith(p, id, statement, tx, TRUE)

\* dbc.statementCache is read, without a lock, and its Prepare called with
\* key: a nil StatementCache faults
CacheReadWith(p, key) ==
    /\ cpc[p] = "cache_read"
    /\ \E i \in Readable(p) :
         /\ view' = [view EXCEPT ![p] = i]
         /\ IF hist[i].statementCache = NoCache
            THEN /\ cpc' = [cpc EXCEPT ![p] = "panic"]
                 /\ cloc' = cloc
            ELSE /\ cpc' = [cpc EXCEPT ![p] = "cache_lock"]
                 /\ cloc' = [cloc EXCEPT ![p].target = hist[i].statementCache,
                                         ![p].key = key,
                                         ![p].viaCache = TRUE]
    /\ UNCHANGED <<connection, statementCache, useStatementCache, config, connectionLock, dbUp, pools, caches, stmts, txs, hist, cop, cres, calls, opens, closeCalls,
                   ccVars, metaVars, subVars, tagVars, objVars, evVars, reqVars, mainVars>>

\* CacheRead that hands the statement text to the StatementCache as the key
CacheReadKeyedBySql(p) == CacheReadWith(p, cop[p].sql)

\* return dbc.statementCache.Prepare(id, statement)
CacheRead(p) == CacheReadWith(p, cop[p].id)

\* StatementCache.Prepare: its mutex is taken
CacheLock(p) ==
    /\ cpc[p] = "cache_lock"
    /\ caches[cloc[p].target].lock = Nil
    /\ caches' = [caches EXCEPT ![cloc[p].target].lock = p]
    /\ cpc' = [cpc EXCEPT ![p] = "cache_lookup"]
    /\ UNCHANGED <<connection, statementCache, useStatementCache, config, connectionLock, dbUp, pools, stmts, txs, hist, view, cop, cloc, cres, calls, opens, closeCalls,
                   ccVars, metaVars, subVars, tagVars, objVars, evVars, reqVars, mainVars>>

\* StatementCache.Prepare: the lookup of the id; a cached handle is returned
\* and the mutex released, else the statement is prepared on the pool
CacheLookup(p) ==
    /\ cpc[p] = "cache_lookup"
    /\ LET c == cloc[p].target
       IN IF cloc[p].key \in DOMAIN caches[c].cache
          THEN /\ caches' = [caches EXCEPT ![c].lock = Nil]
               /\ Return(p, caches[c].cache[cloc[p].key], NoErr, cloc[p])
          ELSE /\ cpc' = [cpc EXCEPT ![p] = "cache_prepare"]
               /\ UNCHANGED <<caches, cloc, cres>>
    /\ UNCHANGED <<connection, statementCache, useStatementCache, config, connectionLock, dbUp, pools, stmts, txs, hist, view, cop, calls, opens, closeCalls,
                   ccVars, metaVars, subVars, tagVars, objVars, evVars, reqVars, mainVars>>

\* StatementCache.Prepare: the driver's prepare returns; a new handle is put
\* in the cache under the id, an error is returned and nothing cached; the
\* mutex is released
CachePrepare(p, ok) ==
    /\ cpc[p] = "cache_prepare"
    /\ LET c == cloc[p].target
           k == cloc[p].key
       IN /\ ok \in Outcomes(caches[c].pool)
          /\ IF ok
             THEN /\ stmts' = Append(stmts, NewStmt(p, caches[c].pool, c))
                  /\ caches' = [caches EXCEPT
                       ![c].lock = Nil,
                       ![c].cache = [x \in DOMAIN caches[c].cache \cup {k} |->
                                       IF x = k THEN Len(stmts) + 1 ELSE caches[c].cache[x]]]
                  /\ Return(p, Len(stmts) + 1, NoErr, cloc[p])
             ELSE /\ stmts' = stmts
                  /\ caches' = [caches EXCEPT ![c].lock = Nil]
                  /\ Return(p, NoStmt, ExceptionNew(Err("prepare")), cloc[p])
    /\ UNCHANGED <<connection, statementCache, useStatementCache, config, connectionLock, dbUp, pools, txs, hist, view, cop, calls, opens, closeCalls,
                   ccVars, metaVars, subVars, tagVars, objVars, evVars, reqVars, mainVars>>

\* a goroutine calls dbc.Close()
CallClose(p) ==
    /\ cpc[p] = "idle"
    /\ calls < MaxCalls
    /\ calls' = calls + 1
    /\ closeCalls' = closeCalls + 1
    /\ cop' = [cop EXCEPT ![p] = [NoCall EXCEPT !.name = "Close"]]
    /\ cloc' = [cloc EXCEPT ![p] = [ZeroLoc EXCEPT !.opened = hist[view[p]].connection # NoPool]]
    /\ cpc' = [cpc EXCEPT ![p] = "close_start"]
    /\ UNCHANGED <<connection, statementCache, useStatementCache, config, connectionLock, dbUp, pools, caches, stmts, txs, hist, view, cres, opens,
                   ccVars, metaVars, subVars, tagVars, objVars, evVars, reqVars, mainVars>>

\* Close: if dbc.statementCache != nil, read without a lock
CloseStart(p) ==
    /\ cpc[p] = "close_start"
    /\ \E i \in Readable(p) :
         /\ view' = [view EXCEPT ![p] = i]
         /\ cloc' = [cloc EXCEPT ![p].target = hist[i].statementCache]
         /\ cpc' = [cpc EXCEPT ![p] = IF hist[i].statementCache # NoCache
                                      THEN "cache_close" ELSE "close_pool"]
    /\ UNCHANGED <<connection, statementCache, useStatementCache, config, connectionLock, dbUp, pools, caches, stmts, txs, hist, cop, cres, calls, opens, closeCalls,
                   ccVars, metaVars, subVars, tagVars, objVars, evVars, reqVars, mainVars>>

\* err = dbc.statementCache.Close(): under the cache's mutex every cached
\* statement is closed and the cache emptied, or a statement's Close fails
\* and its error is returned
CacheClose(p, ok) ==
    /\ cpc[p] = "cache_close"
    /\ LET c == cloc[p].target
       IN /\ caches[c].lock = Nil
          /\ ok \in (IF dbUp THEN {TRUE} ELSE {TRUE, FALSE})
          /\ IF ok
             THEN /\ stmts' = [h \in DOMAIN stmts |->
                                 IF stmts[h].cache = c /\ caches[c].cache # <<>>
                                    /\ \E k \in DOMAIN caches[c].cache : caches[c].cache[k] = h
                                 THEN [stmts[h] EXCEPT !.closed = TRUE] ELSE stmts[h]]
                  /\ caches' = [caches EXCEPT ![c].cache = <<>>, ![c].closes = @ + 1]
                  /\ cloc' = [cloc EXCEPT ![p].err = NoErr, ![p].cacheClosed = TRUE]
             ELSE /\ UNCHANGED <<stmts, caches>>
                  /\ cloc' = [cloc EXCEPT ![p].err = Err("stmt.Close")]
    /\ cpc' = [cpc EXCEPT ![p] = "close_pool"]
    /\ UNCHANGED <<connection, statementCache, useStatementCache, config, connectionLock, dbUp, pools, txs, hist, view, cop, cres, calls, opens, closeCalls,
                   ccVars, metaVars, subVars, tagVars, objVars, evVars, reqVars, mainVars>>

\* the end of Close, given whether the error of the StatementCache is looked at
ClosePoolWith(p, ok, checksErr) ==
    /\ cpc[p] = "close_pool"
    /\ ok \in (IF dbUp THEN {TRUE} ELSE {TRUE, FALSE})
    /\ IF checksErr /\ cloc[p].err # NoErr
       THEN /\ ok
            /\ Return(p, NoPool, cloc[p].err, cloc[p])
            /\ UNCHANGED <<view, pools>>
       ELSE \E i \in Readable(p) :
              /\ view' = [view EXCEPT ![p] = i]
              /\ IF hist[i].connection = NoPool
                 THEN /\ ok
                      /\ cpc' = [cpc EXCEPT ![p] = "panic"]
                      /\ UNCHANGED <<pools, cloc, cres>>
                 ELSE /\ pools' = [pools EXCEPT ![hist[i].connection].closed = TRUE]
                      /\ Return(p, hist[i].connection,
                                IF ok THEN NoErr ELSE Err("db.Close"),
                                cloc[p])
    /\ UNCHANGED <<connection, statementCache, useStatementCache, config, connectionLock, dbUp, caches, stmts, txs, hist, cop, calls, opens, closeCalls,
                   ccVars, metaVars, subVars, tagVars, objVars, evVars, reqVars, mainVars>>

\* ClosePool that closes the pool whatever the StatementCache returned
ClosePoolIgnoresErr(p, ok) == ClosePoolWith(p, ok, FALSE)

\* Close: if err != nil, return err; return dbc.connection.Close(), with
\* dbc.connection read without a lock: a nil pool faults
ClosePool(p, ok) == ClosePoolWith(p, ok, TRUE)

\* a Connection configured by the application, used by no goroutine yet
ConnInit ==
    /\ ConnIdle
    /\ useStatementCache \in BOOLEAN
    /\ config \in Configs
    /\ dbUp \in BOOLEAN
    /\ arrays = <<>>
    /\ colls = <<>>
    /\ own = <<>>
    /\ ops = 0
    /\ MetaIdle
    /\ SubIdle
    /\ TagIdle
    /\ ObjIdle
    /\ EvIdle
    /\ ReqIdle
    /\ MainIdle

\* the transactions a caller can pass: none, or one Begin returned
TxArgs == {NoTx} \cup (1..Len(txs))

ConnNext ==
    \/ \E p \in Callers : CallOpen(p)
    \/ \E p \in Callers : OpenCheck1(p)
    \/ \E p \in Callers : OpenLock(p)
    \/ \E p \in Callers : OpenCheck2(p)
    \/ \E p \in Callers, ok \in BOOLEAN : ExecSearchPath(p, ok)
    \/ \E p \in Callers, ok \in BOOLEAN : ExecPing(p, ok)
    \/ \E p \in Callers : CallBegin(p)
    \/ \E p \in Callers : BeginCheck(p)
    \/ \E p \in Callers : BeginAfterOpen(p)
    \/ \E p \in Callers, ok \in BOOLEAN : BeginTx(p, ok)
    \/ \E p \in Callers, statement \in Statements, tx \in TxArgs : CallPrepare(p, statement, tx)
    \/ \E p \in Callers, ok \in BOOLEAN : TxPrepare(p, ok)
    \/ \E p \in Callers : PrepareAfterOpen(p)
    \/ \E p \in Callers, ok \in BOOLEAN : DbPrepare(p, ok)
    \/ \E p \in Callers, id \in StmtIds, statement \in Statements, tx \in TxArgs :
           CallPrepareCached(p, id, statement, tx)
    \/ \E p \in Callers : CacheRead(p)
    \/ \E p \in Callers : CacheLock(p)
    \/ \E p \in Callers : CacheLookup(p)
    \/ \E p \in Callers, ok \in BOOLEAN : CachePrepare(p, ok)
    \/ \E p \in Callers : CallClose(p)
    \/ \E p \in Callers : CloseStart(p)
    \/ \E p \in Callers, ok \in BOOLEAN : CacheClose(p, ok)
    \/ \E p \in Callers, ok \in BOOLEAN : ClosePool(p, ok)

\* goroutines calling one Connection concurrently
SpecConn == ConnInit /\ [][ConnNext]_vars


\* the database is reachable: the configuration is usable and no driver call
\* fails on an open pool
Reachable == dbUp /\ config.set /\ config.dsnOk

\* C3: on a Connection whose database is reachable, however many Open()
\* calls run, concurrently or one after another, openNewSQLConnection
\* creates a pool at most once; every Open() that has returned returned no
\* error, and dbc.connection is then that one pool.
C3_PoolCreatedOnce ==
    Reachable =>
        /\ opens <= 1
        /\ Len(pools) <= 1
        /\ \A p \in Callers :
             cres[p].call.name = "Open" =>
                 /\ cres[p].err = NoErr
                 /\ opens = 1
                 /\ connection = Len(pools)
                 /\ connection # NoPool

\* the database is reachable, both goroutines called Open(), both calls have
\* returned and one pool was created
C3_Witness ==
    /\ Reachable
    /\ opens = 1
    /\ \A p \in Callers : cres[p].call.name = "Open" /\ cpc[p] = "idle"
    /\ \A p \in Callers : view[p] = Len(hist)
    /\ calls = 2

\* the positions at which a call is executing a statement or another driver
\* call against the database
ExecStates ==
    {"exec_search_path", "exec_ping", "begin_tx", "tx_prepare", "db_prepare",
     "cache_prepare", "cache_close", "close_pool"}

\* C4 as stated: no caller that is executing a statement against the
\* database, the search-path statement and the liveness check of Open
\* included, holds connectionLock.
C4_NoLockAcrossCall ==
    \A p \in Callers : cpc[p] \in ExecStates => connectionLock # p

\* C4 amended: connectionLock is held only inside Open, from Lock() to the
\* return, and so across the search-path statement and the liveness check of
\* openNewSQLConnection; every other driver call, of Begin, Prepare,
\* PrepareCached and Close, runs without it.
C4_LockOnlyInsideOpen ==
    /\ \A p \in Callers :
         connectionLock = p <=>
             cpc[p] \in {"open_check2", "exec_search_path", "exec_ping"}
    /\ \A p \in Callers :
         cpc[p] \in ExecStates \ {"exec_search_path", "exec_ping"} =>
             connectionLock # p

\* a Begin is at the liveness check of Open, holding connectionLock, while
\* the other goroutine waits at Lock()
C4_Witness ==
    \E p, q \in Callers :
        /\ cpc[p] = "exec_ping" /\ connectionLock = p /\ cop[p].name = "Begin"
        /\ cpc[q] = "open_lock"

\* the handles the driver prepared through StatementCache c for call id id
PreparedFor(c, id) ==
    {h \in DOMAIN stmts : stmts[h].cache = c /\ stmts[h].id = id}

\* C6: with statement caching enabled, PrepareCached(id, sql, nil) prepares
\* at most once per id on a StatementCache that was not closed: the handle
\* of the first call is cached under the id and is what every later call
\* with that id returns, whatever its sql text.
C6_PreparedOncePerId ==
    /\ \A c \in DOMAIN caches : \A id \in StmtIds :
         caches[c].closes = 0 =>
             /\ Cardinality(PreparedFor(c, id)) <= 1
             /\ \A h \in PreparedFor(c, id) :
                  id \in DOMAIN caches[c].cache /\ caches[c].cache[id] = h
    /\ \A p \in Callers :
         ( /\ cres[p].call.name = "PrepareCached"
           /\ cres[p].loc.viaCache
           /\ cres[p].err = NoErr
           /\ caches[cres[p].loc.target].closes = 0 ) =>
             /\ cres[p].val # NoStmt
             /\ PreparedFor(cres[p].loc.target, cres[p].call.id) = {cres[p].val}

\* both goroutines called PrepareCached with the same id and different sql
\* texts, and both calls returned the one handle prepared for the id
C6_Witness ==
    \E p, q \in Callers :
        /\ p # q
        /\ cres[p].call.name = "PrepareCached" /\ cres[q].call.name = "PrepareCached"
        /\ cres[p].loc.viaCache /\ cres[q].loc.viaCache
        /\ cres[p].call.id = cres[q].call.id
        /\ cres[p].call.sql # cres[q].call.sql
        /\ cres[p].val # NoStmt
        /\ cres[p].val = cres[q].val
        /\ cres[p].err = NoErr /\ cres[q].err = NoErr

\* C7: a Prepare or PrepareCached call with a non-nil transaction goes
\* straight to tx.Prepare, whether statement caching is enabled or not, and
\* every step of the call leaves the StatementCache, its contents, the pool
\* handle and the pools alone: no cache lookup or insertion, no Open.
C7_TxPrepareLeavesCacheAndPool ==
    [][\A p \in Callers :
          /\ (cpc[p] = "idle" /\ cpc'[p] # "idle" /\ cop'[p].tx # NoTx)
                => cpc'[p] = "tx_prepare"
          /\ (cpc[p] # "idle" /\ cop[p].tx # NoTx /\ cpc'[p] # cpc[p])
                => /\ cpc[p] = "tx_prepare"
                   /\ cpc'[p] = "idle"
                   /\ ~cres'[p].loc.viaCache /\ ~cres'[p].loc.opened
                   /\ UNCHANGED <<connection, statementCache, caches, pools,
                                  connectionLock, hist, opens>>]_vars

\* with statement caching enabled and a statement in the cache, a
\* PrepareCached call with a transaction returned a handle of its own
C7_Witness ==
    \E p \in Callers :
        /\ useStatementCache
        /\ statementCache # NoCache
        /\ caches[statementCache].cache # <<>>
        /\ cres[p].call.name = "PrepareCached"
        /\ cres[p].call.tx # NoTx
        /\ cres[p].val # NoStmt
        /\ stmts[cres[p].val].cache = NoCache
        /\ stmts[cres[p].val].tx = cres[p].call.tx

\* C8: Close() on an opened Connection closes the StatementCache before the
\* pool: it is at the pool close only after statementCache.Close() returned,
\* and when that returned an error Close returns this error and has not
\* closed the pool; else it has closed the cache and then the pool.
C8_CloseCacheThenPool ==
    \A p \in Callers :
        /\ (cop[p].name = "Close" /\ cloc[p].opened /\ cpc[p] = "close_pool") =>
               (cloc[p].cacheClosed \/ cloc[p].err # NoErr)
        /\ (cres[p].call.name = "Close" /\ cres[p].loc.opened) =>
               IF cres[p].loc.err # NoErr
               THEN /\ cres[p].err = cres[p].loc.err
                    /\ cres[p].val = NoPool
                    /\ ~cres[p].loc.cacheClosed
               ELSE /\ cres[p].loc.cacheClosed
                    /\ cres[p].val # NoPool
                    /\ pools[cres[p].val].closed

\* a Close() of the opened Connection with a statement in its cache got an
\* error from the StatementCache, returned it and left the pool open
C8_Witness ==
    \E p \in Callers :
        /\ cres[p].call.name = "Close" /\ cres[p].loc.opened
        /\ cres[p].loc.err # NoErr /\ cres[p].err = cres[p].loc.err
        /\ connection # NoPool /\ ~pools[connection].closed
        /\ caches[statementCache].cache # <<>>
        /\ closeCalls = 1

\* C9: Begin() begins a transaction only on the opened pool (with
\* dbc.connection nil it goes through Open() first) and never faults; when
\* its Open() failed it returns a non-nil error and no transaction, and a
\* transaction is returned with a nil error and only with one.
C9_BeginOpensFirst ==
    \A p \in Callers :
        /\ cpc[p] = "begin_tx" =>
               (cloc[p].target # NoPool /\ cloc[p].target = connection)
        /\ cop[p].name = "Begin" => cpc[p] # "panic"
        /\ cres[p].call.name = "Begin" =>
               /\ (cres[p].loc.err # NoErr) =>
                      (cres[p].err # NoErr /\ cres[p].val = NoTx)
               /\ (cres[p].val # NoTx) <=> (cres[p].err = NoErr)

\* one Begin() found the pool unopened and its Open() failed, another found
\* it unopened, opened it and returned a transaction
C9_Witness ==
    \E p, q \in Callers :
        /\ cres[p].call.name = "Begin" /\ cres[p].loc.opened
        /\ cres[p].loc.err # NoErr /\ cres[p].err # NoErr /\ cres[p].val = NoTx
        /\ cres[q].call.name = "Begin" /\ cres[q].loc.opened
        /\ cres[q].val # NoTx /\ cres[q].err = NoErr

\* ------------------------------------------------------------------------
\* Derived subsets: PrimaryKeys ... UpdateColumns and ConcatWith, one step
\* per read or write of a memo field; the accessors take no lock
\* ------------------------------------------------------------------------

\* the accessors that filter cc.columns by one flag
FilterNames == {"autos", "notAutos", "readOnly", "notReadOnly", "primaryKeys",
                "notPrimaryKeys"}

\* the accessors' conditions with NotPrimaryKeys taking every column
SelectsNoKeyTest(n, c) ==
    CASE n = "primaryKeys" -> c.IsPrimaryKey
      [] n = "notPrimaryKeys" -> TRUE
      [] n = "autos" -> c.IsAuto
      [] n = "notAutos" -> ~c.IsAuto
      [] n = "readOnly" -> c.IsReadOnly
      [] n = "notReadOnly" -> ~c.IsReadOnly

\* the condition under which the loop of accessor n does newCC.Add(c)
Selects(n, c) ==
    CASE n = "primaryKeys" -> c.IsPrimaryKey
      [] n = "notPrimaryKeys" -> ~c.IsPrimaryKey
      [] n = "autos" -> c.IsAuto
      [] n = "notAutos" -> ~c.IsAuto
      [] n = "readOnly" -> c.IsReadOnly
      [] n = "notReadOnly" -> ~c.IsReadOnly

\* newCC.columns after the loop of accessor n over elems: newCC.Add(c) appends
\* to a slice that starts nil
RECURSIVE FilterLoop(_, _)
FilterLoop(elems, n) ==
    IF Len(elems) = 0 THEN [elems |-> <<>>, cap |-> 0]
    ELSE LET rest == FilterLoop(SubSeq(elems, 1, Len(elems) - 1), n)
             last == elems[Len(elems)]
         IN IF Selects(n, last) THEN AppendLocal(rest, last) ELSE rest

\* newCC.lookup after the loop: Add stores the address of its own parameter
\* under the column name, a later column of the same name replacing an earlier
LookupOfAdded(elems) ==
    [nm \in {elems[i].ColumnName : i \in 1..Len(elems)} |->
        <<"val", elems[CHOOSE i \in 1..Len(elems) :
                          /\ elems[i].ColumnName = nm
                          /\ \A j \in (i + 1)..Len(elems) : elems[j].ColumnName # nm]>>]

\* the steps of an accessor call: the read of the memo field of subset n of
\* recv (NoColl: of the instance the previous step returned; save: that
\* instance is first kept as the receiver of ConcatWith), the build of a
\* filtered subset, ConcatWith, and the write of the memo field
CheckStep(n, recv, save) == [k |-> "check", n |-> n, recv |-> recv, save |-> save]

BuildStep(n, recv) == [k |-> "build", n |-> n, recv |-> recv, save |-> FALSE]

ConcatStep == [k |-> "concat", n |-> "none", recv |-> NoColl, save |-> FALSE]

StoreStep(n, recv) == [k |-> "store", n |-> n, recv |-> recv, save |-> FALSE]

\* the accessors with WriteColumns as cc.NotReadOnly()
StepsOnMissWriteKeepsKeys(n, c) ==
    IF n \in FilterNames THEN <<BuildStep(n, c)>>
    ELSE IF n = "writeColumns"
    THEN <<CheckStep("notReadOnly", c, FALSE), StoreStep(n, c)>>
    ELSE <<CheckStep("notReadOnly", c, FALSE), CheckStep("notPrimaryKeys", NoColl, FALSE),
           CheckStep("primaryKeys", c, TRUE), ConcatStep, StoreStep(n, c)>>

\* the accessors with UpdateColumns as cc.NotReadOnly().ConcatWith(cc.PrimaryKeys())
StepsOnMissUpdateKeysTwice(n, c) ==
    IF n \in FilterNames THEN <<BuildStep(n, c)>>
    ELSE IF n = "writeColumns"
    THEN <<CheckStep("notReadOnly", c, FALSE), CheckStep("notPrimaryKeys", NoColl, FALSE),
           StoreStep(n, c)>>
    ELSE <<CheckStep("notReadOnly", c, FALSE), CheckStep("primaryKeys", c, TRUE),
           ConcatStep, StoreStep(n, c)>>

\* what accessor n of c does after it read its memo field nil
StepsOnMiss(n, c) ==
    IF n \in FilterNames THEN <<BuildStep(n, c)>>
    ELSE IF n = "writeColumns"
    THEN <<CheckStep("notReadOnly", c, FALSE), CheckStep("notPrimaryKeys", NoColl, FALSE),
           StoreStep(n, c)>>
    ELSE <<CheckStep("notReadOnly", c, FALSE), CheckStep("notPrimaryKeys", NoColl, FALSE),
           CheckStep("primaryKeys", c, TRUE), ConcatStep, StoreStep(n, c)>>

\* the receiver of the step goroutine g is at
RecvOf(g) == IF Head(todo[g]).recv = NoColl THEN acc[g] ELSE Head(todo[g]).recv

\* goroutine g goes on with the steps rest, val being what the step done
\* returned; with no step left its accessor call returns val
SubContinue(g, rest, val) ==
    /\ todo' = [todo EXCEPT ![g] = rest]
    /\ acc' = [acc EXCEPT ![g] = val]
    /\ IF rest = <<>>
       THEN /\ sret' = sret \cup {[c |-> scall[g].c, n |-> scall[g].n, inst |-> val]}
            /\ scall' = [scall EXCEPT ![g] = NoSCall]
       ELSE UNCHANGED <<sret, scall>>

\* a goroutine calls accessor n on instance c: it is at the read of the memo
\* field
CallAccessor(g, c, n) ==
    /\ todo[g] = <<>>
    /\ scalls < MaxSubCalls
    /\ scalls' = scalls + 1
    /\ scall' = [scall EXCEPT ![g] = [n |-> n, c |-> c, other |-> NoColl]]
    /\ todo' = [todo EXCEPT ![g] = <<CheckStep(n, c, FALSE)>>]
    /\ acc' = [acc EXCEPT ![g] = NoColl]
    /\ tmp' = [tmp EXCEPT ![g] = NoColl]
    /\ UNCHANGED <<sret, built, ccVars, metaVars, connVars, tagVars, objVars, evVars, reqVars, mainVars>>

\* a goroutine calls a.ConcatWith(b)
CallConcatWith(g, a, b) ==
    /\ todo[g] = <<>>
    /\ scalls < MaxSubCalls
    /\ scalls' = scalls + 1
    /\ scall' = [scall EXCEPT ![g] = [n |-> "concatWith", c |-> a, other |-> b]]
    /\ todo' = [todo EXCEPT ![g] = <<ConcatStep>>]
    /\ acc' = [acc EXCEPT ![g] = b]
    /\ tmp' = [tmp EXCEPT ![g] = a]
    /\ UNCHANGED <<sret, built, ccVars, metaVars, connVars, tagVars, objVars, evVars, reqVars, mainVars>>

\* if cc.<n> != nil { return cc.<n> }: the memo field is read, without a
\* lock; when it is set the accessor returns it, else it goes on to compute
SubCheck(g) ==
    /\ todo[g] # <<>>
    /\ Head(todo[g]).k = "check"
    /\ LET op == Head(todo[g])
           c == RecvOf(g)
       IN /\ tmp' = [tmp EXCEPT ![g] = IF op.save THEN acc[g] ELSE @]
          /\ IF colls[c].memo[op.n] # NoColl
             THEN SubContinue(g, Tail(todo[g]), colls[c].memo[op.n])
             ELSE /\ todo' = [todo EXCEPT ![g] = StepsOnMiss(op.n, c) \o Tail(@)]
                  /\ UNCHANGED <<acc, sret, scall>>
    /\ UNCHANGED <<scalls, built, ccVars, metaVars, connVars, tagVars, objVars, evVars, reqVars, mainVars>>

\* the loop of a filtering accessor and cc.<n> = newCC: the new instance has
\* the receiver's prefix, the selected columns in a backing array of its own
\* and no memoized subsets; it is stored in the memo field and returned
SubBuild(g) ==
    /\ todo[g] # <<>>
    /\ Head(todo[g]).k = "build"
    /\ LET op == Head(todo[g])
           c == op.recv
           cols == FilterLoop(Columns(c), op.n)
           new == Len(colls) + 1
       IN /\ arrays' = ArraysWithLocal(arrays, cols)
          /\ colls' = Append([colls EXCEPT ![c].memo[op.n] = new],
                             [columns |-> SliceOfLocal(arrays, cols),
                              lookup |-> LookupOfAdded(cols.elems),
                              columnPrefix |-> colls[c].columnPrefix,
                              memo |-> [s \in SubsetNames |-> NoColl]])
          /\ own' = Append(own, OwnOf(cols.elems, colls[c].columnPrefix, own[c].origin))
          /\ built' = built \cup {[inst |-> new, c |-> c, n |-> op.n, from |-> Columns(c),
                                   cols |-> cols.elems]}
          /\ SubContinue(g, Tail(todo[g]), new)
    /\ UNCHANGED <<ops, tmp, scalls, metaVars, connVars, tagVars, objVars, evVars, reqVars, mainVars>>

\* ConcatWith of the instances a and b, given which of them comes first
SubConcatWith(g, swapped) ==
    /\ todo[g] # <<>>
    /\ Head(todo[g]).k = "concat"
    /\ LET a == tmp[g]
           b == acc[g]
           elems == IF swapped THEN Columns(b) \o Columns(a) ELSE Columns(a) \o Columns(b)
           total == [elems |-> elems, cap |-> Len(elems)]
           new == Len(colls) + 1
       IN /\ arrays' = ArraysWithLocal(arrays, total)
          /\ colls' = Append(colls,
                        newColumnCollectionFromColumns(ArraysWithLocal(arrays, total),
                                                       SliceOfLocal(arrays, total)))
          /\ own' = Append(own, OwnOf(elems, <<>>, own[a].origin))
          /\ built' = built \cup {[inst |-> new, c |-> a, n |-> "concatWith",
                                   from |-> Columns(a), cols |-> elems]}
          /\ SubContinue(g, Tail(todo[g]), new)
    /\ UNCHANGED <<ops, tmp, scalls, metaVars, connVars, tagVars, objVars, evVars, reqVars, mainVars>>

\* ConcatWith that puts the columns of other first
SubConcatSwapped(g) == SubConcatWith(g, TRUE)

\* cc.ConcatWith(other): total := make([]Column, len(cc.columns)+len(other.columns)),
\* the columns of cc copied in, then those of other, and
\* newColumnCollectionFromColumns(total)
SubConcat(g) == SubConcatWith(g, FALSE)

\* cc.writeColumns = ... / cc.updateColumns = ...: the memo field is written
\* and the accessor returns it
SubStore(g) ==
    /\ todo[g] # <<>>
    /\ Head(todo[g]).k = "store"
    /\ LET op == Head(todo[g])
       IN /\ colls' = [colls EXCEPT ![op.recv].memo[op.n] = acc[g]]
          /\ SubContinue(g, Tail(todo[g]), acc[g])
    /\ UNCHANGED <<arrays, own, ops, tmp, scalls, built, metaVars, connVars, tagVars, objVars, evVars, reqVars, mainVars>>

\* the goroutine of the sequential accessor calls
SeqCallers == {"g1"}

SubNext ==
    \/ \E g \in SeqCallers, c \in Instances, n \in SubsetNames : CallAccessor(g, c, n)
    \/ \E g \in SeqCallers, a \in Instances, b \in Instances : CallConcatWith(g, a, b)
    \/ \E g \in SeqCallers : SubCheck(g)
    \/ \E g \in SeqCallers : SubBuild(g)
    \/ \E g \in SeqCallers : SubConcat(g)
    \/ \E g \in SeqCallers : SubStore(g)
    \/ \E c \in Instances : ops < MaxSubOps /\ Copy(c)
    \/ \E c \in Instances, prefix \in Prefixes :
           ops < MaxSubOps /\ CopyWithColumnPrefix(c, prefix)
    \/ \E c \in Instances, col \in NewColumns : ops < MaxSubOps /\ Add(c, col)

\* one goroutine calling the derived-subset accessors and ConcatWith, one
\* call after the other, on the collection resolved for one type, on its
\* copies and on the subsets returned, and copying them and adding columns
SpecSub == CCInit /\ [][SubNext]_vars

RaceNext ==
    \/ \E g \in Goroutines, c \in Instances, n \in SubsetNames : CallAccessor(g, c, n)
    \/ \E g \in Goroutines : SubCheck(g)
    \/ \E g \in Goroutines : SubBuild(g)
    \/ \E g \in Goroutines : SubConcat(g)
    \/ \E g \in Goroutines : SubStore(g)

\* two goroutines calling the derived-subset accessors concurrently on the
\* collection resolved for one type and on the subsets returned
SpecRace == CCInit /\ [][RaceNext]_vars

\* the instances that are derived subsets or ConcatWith results
BuiltInstances == {b.inst : b \in built}

\* C11: the memoized subsets of a collection are its own: a filtered subset
\* in a memo field of c was built by the accessor called on c, from c's
\* columns and with c's prefix, and no two collections, a copy and its source
\* included, hold the same instance as the same subset. A copy therefore
\* starts with every memo field unset, whatever its source had memoized.
C11_CopyMemoReset ==
    /\ \A c \in Instances : \A n \in FilterNames :
         colls[c].memo[n] # NoColl =>
             /\ \E b \in built : b.inst = colls[c].memo[n] /\ b.c = c /\ b.n = n
             /\ colls[colls[c].memo[n]].columnPrefix = colls[c].columnPrefix
    /\ \A c1, c2 \in Instances : \A n \in SubsetNames :
         (c1 # c2 /\ colls[c1].memo[n] # NoColl) =>
             colls[c1].memo[n] # colls[c2].memo[n]

\* the source memoized a subset, was copied, and the same accessor called on
\* the copy built a subset of its own
C11_Witness ==
    \E c \in Instances \ BuiltInstances : \E n \in FilterNames :
        /\ c # 1
        /\ ops = 1
        /\ colls[1].memo[n] # NoColl
        /\ colls[c].memo[n] # NoColl
        /\ colls[c].memo[n] > c
        /\ c > colls[1].memo[n]
        /\ [c |-> c, n |-> n, inst |-> colls[c].memo[n]] \in sret

\* C12 as stated: whatever the interleaving of the accessor calls on one
\* collection, each filtered subset of it is built at most once and all calls
\* of one derived-subset accessor on it return the same instance.
C12_SubsetBuiltOnce ==
    /\ \A c \in Instances : \A n \in FilterNames :
         Cardinality({b \in built : b.c = c /\ b.n = n}) <= 1
    /\ \A r1, r2 \in sret :
         (r1.n \in SubsetNames /\ r1.c = r2.c /\ r1.n = r2.n) => r1.inst = r2.inst

\* the zero-based indexes of the fields of t that are neither anonymous nor
\* tagged "-"
EligibleIndexes(t) ==
    {i \in 0..(NumField(t) - 1) :
        ~TypeDefs[t].Fields[i + 1].Anonymous /\ TypeDefs[t].Fields[i + 1].Tag # <<"-">>}

Settled(c) ==
    \A b \in built :
        /\ b.c = c => b.from = Columns(c)
        /\ b.inst = c => b.cols = Columns(c)

\* c and all the subsets in its memo fields are settled
SettledWithSubsets(c) ==
    /\ Settled(c)
    /\ \A n \in SubsetNames : colls[c].memo[n] # NoColl => Settled(colls[c].memo[n])

\* s can be got from t by leaving elements out
RECURSIVE IsSubSeq(_, _)
IsSubSeq(s, t) ==
    IF s = <<>> THEN TRUE
    ELSE IF t = <<>> THEN FALSE
    ELSE IF Head(s) = Head(t) THEN IsSubSeq(Tail(s), Tail(t))
    ELSE IsSubSeq(s, Tail(t))

\* the elements of the sequence s
Elems(s) == {s[i] : i \in 1..Len(s)}

\* no element is twice in s
Distinct(s) == \A i, j \in 1..Len(s) : s[i] = s[j] => i = j

IsWritten(col) == ~col.IsReadOnly /\ ~col.IsPrimaryKey

C16_WriteColumnsNoAuto ==
    \A c \in Instances :
        LET w == colls[c].memo["writeColumns"]
        IN (w # NoColl /\ SettledWithSubsets(c)) =>
              \A i \in 1..Len(Columns(w)) : ~Columns(w)[i].IsAuto

ConcatTaken(g) ==
    /\ todo[g] # <<>>
    /\ Head(todo[g]).k = "concat"
    /\ todo'[g] = Tail(todo[g])

\* C18: every ConcatWith step of a on b yields a new collection, on a backing
\* array of its own, of length Len(a) + Len(b), holding the columns of a in
\* order and then the columns of b in order, and leaves a and b as they were.
C18_ConcatWith ==
    [][\A g \in Goroutines :
          ConcatTaken(g) =>
              LET a == tmp[g]
                  b == acc[g]
                  new == acc'[g]
              IN /\ new = Len(colls) + 1
                 /\ Len(colls') = Len(colls) + 1
                 /\ colls'[new].columns.arr \notin DOMAIN arrays
                 /\ colls'[new].columns.len = CollLen(a) + CollLen(b)
                 /\ SliceElems(arrays', colls'[new].columns) = Columns(a) \o Columns(b)
                 /\ colls'[a] = colls[a] /\ colls'[b] = colls[b]
                 /\ SliceElems(arrays', colls'[a].columns) = Columns(a)
                 /\ SliceElems(arrays', colls'[b].columns) = Columns(b)
                 /\ \A i \in DOMAIN arrays : arrays'[i] = arrays[i]]_vars

\* a direct call a.ConcatWith(b) returned, for an a with columns and a b with
\* columns other than a's, and a and the result are as they were then
C18_Witness ==
    \E r \in sret, x \in built :
        /\ r.n = "concatWith" /\ x.n = "concatWith"
        /\ x.inst = r.inst /\ x.c = r.c
        /\ Settled(x.c) /\ Settled(x.inst)
        /\ Len(x.from) >= 2
        /\ Len(x.cols) > Len(x.from)
        /\ x.cols # x.from \o x.from
        /\ Columns(r.inst) = x.cols


\* ------------------------------------------------------------------------
\* Field descriptors: db tags written piece by piece and parsed
\* ------------------------------------------------------------------------

\* the flag keywords of the db tag
KwPk == <<"p", "k">>
KwAuto == <<"a", "u", "t", "o">>
KwSerial == <<"s", "e", "r", "i", "a", "l">>
KwReadOnly == <<"r", "e", "a", "d", "o", "n", "l", "y">>
KwNullable == <<"n", "u", "l", "l", "a", "b", "l", "e">>
KwJSON == <<"j", "s", "o", "n">>

\* the pieces tags are written from: nothing, the excluding "-", names in
\* lower and mixed case, the keywords, keywords in other letter case, and
\* words that are no keyword but hold one
TagTokens ==
    { <<>>, <<"-">>, <<"n">>, <<"I", "d">>,
      KwPk, KwAuto, KwSerial, KwReadOnly, KwNullable, KwJSON,
      <<"P", "K">>, <<"J", "s", "o", "n">>,
      <<"x", "p", "k">>, <<"j", "s", "o", "n", "b">> }

\* one more piece is written to the tag
TagAppend(tok) ==
    /\ Len(tagPieces) < MaxPieces
    /\ tagPieces' = Append(tagPieces, tok)
    /\ parsed' = NoParse
    /\ UNCHANGED <<tagName, ccVars, metaVars, connVars, subVars, objVars, evVars, reqVars, mainVars>>

\* col := NewColumnFromFieldTag(field) for the field of the tag written so far
TagParse ==
    /\ ~parsed.done
    /\ LET tagged == Field(tagName, FALSE, "string", JoinComma(tagPieces))
       IN parsed' = [Name |-> tagName, Tag |-> tagged.Tag, pieces |-> tagPieces,
                     col |-> NewColumnFromFieldTag(tagged), done |-> TRUE]
    /\ UNCHANGED <<tagName, tagPieces, ccVars, metaVars, connVars, subVars, objVars, evVars, reqVars, mainVars>>

\* a field name, no piece written, nothing parsed, and nothing else there
TagInit ==
    /\ tagName \in FieldNames
    /\ tagPieces = <<>>
    /\ parsed = NoParse
    /\ ObjIdle
    /\ EvIdle
    /\ ReqIdle
    /\ MainIdle
    /\ arrays = <<>>
    /\ colls = <<>>
    /\ own = <<>>
    /\ ops = 0
    /\ MetaIdle
    /\ SubIdle
    /\ ConnIdle
    /\ useStatementCache = FALSE
    /\ config = [set |-> TRUE, dsnOk |-> TRUE, schema |-> FALSE]
    /\ dbUp = TRUE

TagNext ==
    \/ \E tok \in TagTokens : TagAppend(tok)
    \/ TagParse

\* descriptors of up to MaxPieces pieces parsed for a field
SpecTag == TagInit /\ [][TagNext]_vars

\* the flags of a descriptor: its pieces after the first, in lower case
FlagsOf(pieces) == {ToLower(pieces[i]) : i \in 2..Len(pieces)}

\* the text of a descriptor before its first comma
RECURSIVE BeforeFirstComma(_)
BeforeFirstComma(s) ==
    IF s = <<>> THEN <<>>
    ELSE IF Head(s) = "," THEN <<>>
    ELSE <<Head(s)>> \o BeforeFirstComma(Tail(s))

\* a parse that yielded a column
ParsedColumn == parsed.done /\ parsed.col # NilColumn

\* C19: for every parsed descriptor that yields a column, each flag is set
\* exactly when its keyword is, in any letter case, one of the pieces after
\* the first comma: IsPrimaryKey for pk, IsAuto for auto or serial,
\* IsReadOnly for readonly, IsNullable for nullable, IsJSON for json.
C19_FlagsExact ==
    ParsedColumn =>
        LET flags == FlagsOf(parsed.pieces)
            col == parsed.col
        IN /\ col.IsPrimaryKey <=> KwPk \in flags
           /\ col.IsAuto <=> (KwAuto \in flags \/ KwSerial \in flags)
           /\ col.IsReadOnly <=> KwReadOnly \in flags
           /\ col.IsNullable <=> KwNullable \in flags
           /\ col.IsJSON <=> KwJSON \in flags

\* C20: for every parsed descriptor that yields a column, the column name is
\* the lower-cased field name when the descriptor is empty or starts with a
\* comma, and the text before the first comma otherwise; a keyword among the
\* flags of a descriptor that starts with a comma sets its flag.
C20_ColumnName ==
    ParsedColumn =>
        LET db == parsed.Tag
            col == parsed.col
            flags == FlagsOf(parsed.pieces)
        IN IF db = <<>> \/ Head(db) = ","
           THEN /\ col.ColumnName = ToLower(parsed.Name)
                /\ KwPk \in flags => col.IsPrimaryKey
                /\ (KwAuto \in flags \/ KwSerial \in flags) => col.IsAuto
                /\ KwReadOnly \in flags => col.IsReadOnly
                /\ KwNullable \in flags => col.IsNullable
                /\ KwJSON \in flags => col.IsJSON
           ELSE col.ColumnName = BeforeFirstComma(db)

\* the tag ",readonly" was parsed for the field Ab: the column is named ab
\* and is read-only
C20_Witness ==
    /\ ParsedColumn
    /\ parsed.Name = <<"A", "b">>
    /\ parsed.Tag = <<",">> \o KwReadOnly
    /\ parsed.col.ColumnName = <<"a", "b">>
    /\ parsed.col.IsReadOnly
    /\ ~parsed.col.IsPrimaryKey

\* ------------------------------------------------------------------------
\* Mapped objects and reflection: a value is its Go type, whether it is a
\* nil pointer, and its content as a sequence of characters (a number is its
\* digit, a doc the digits of its members A and B)
\* ------------------------------------------------------------------------

\* the numbers fields hold
Digits == {"0", "1", "2"}

\* a Go value of type typ with content v
Val(typ, v) == [t |-> typ, isNil |-> FALSE, v |-> v]

\* the nil pointer of pointer type typ
NilPtr(typ) == [t |-> typ, isNil |-> TRUE, v |-> <<>>]

\* reflect.Zero(typ).Interface()
Zero(typ) ==
    CASE typ = "int" -> Val(typ, <<"0">>)
      [] typ = "int32" -> Val(typ, <<"0">>)
      [] typ = "string" -> Val(typ, <<>>)
      [] typ = "*int" -> NilPtr(typ)
      [] typ = "doc" -> Val(typ, <<"0", "0">>)
      [] typ = "struct" -> Val(typ, <<>>)

\* fieldType.Kind() == reflect.Ptr
IsPtrType(typ) == typ = "*int"

\* fieldType.Elem() of a pointer type
ElemType(typ) == "int"

\* the zero reflect.Value: IsValid() is false
InvalidValue == [valid |-> FALSE, t |-> "", canAddr |-> FALSE, isNil |-> FALSE, v |-> <<>>, ok |-> FALSE]

\* what a caller passes as value interface{}: a Go value of type t, handed
\* over as it is or as a pointer to it (ptr), the pointer or the interface
\* possibly nil; ok is the Valid member of a sql.NullString
Arg(typ, ptr, isNil, v, ok) == [t |-> typ, ptr |-> ptr, isNil |-> isNil, v |-> v, ok |-> ok]

\* reflectValue(obj): reflect.ValueOf(obj) with pointers followed to what
\* they point to: addressable when a pointer was followed, invalid for nil
reflectValue(x) ==
    IF x.isNil THEN InvalidValue
    ELSE [valid |-> TRUE, t |-> x.t, canAddr |-> x.ptr, isNil |-> FALSE, v |-> x.v, ok |-> x.ok]

\* a mapped object of type t with the zero value in every field, passed by
\* reference (a pointer to the struct) or by value
NewObject(t, byRef) ==
    [t |-> t, byRef |-> byRef,
     fields |-> [i \in 1..NumField(t) |-> Zero(TypeDefs[t].Fields[i].Type)]]

\* the one-based place of the field objValue.FieldByName(name) finds, 0 when
\* the struct has no such field
FieldByName(t, name) ==
    IF \E i \in 1..NumField(t) : TypeDefs[t].Fields[i].Name = name
    THEN CHOOSE i \in 1..NumField(t) : TypeDefs[t].Fields[i].Name = name
    ELSE 0

\* field.CanSet(): the struct is addressable and the field is exported
CanSet(obj, name) ==
    /\ obj.byRef
    /\ \E i \in 1..Len(UpperChars) : UpperChars[i] = name[1]

\* Type.AssignableTo: the types are identical (the model has no interface
\* typed field)
AssignableTo(from, to) == from = to

\* Type.ConvertibleTo: between the integer types, and from an integer to string
ConvertibleTo(from, to) ==
    \/ from = to
    \/ from \in {"int", "int32"} /\ to \in {"int", "int32", "string"}

\* Value.Convert(typ): a new value of type typ; never addressable
Convert(value, typ) ==
    [valid |-> TRUE, t |-> typ, canAddr |-> FALSE, isNil |-> FALSE,
     v |-> IF typ = "string" /\ value.t # "string" THEN <<"\\x">> \o value.v ELSE value.v,
     ok |-> TRUE]

\* ------------------------------------------------------------------------
\* encoding/json on token sequences: a JSON text is the sequence of its
\* tokens; an object is "{" key value ... "}" with one-token member values
\* ------------------------------------------------------------------------

\* the one-token JSON values: numbers, a boolean, null
JSONScalars == Digits \cup {"true", "null"}

\* the text is a JSON string literal
IsJSONString(text) ==
    /\ Len(text) >= 2
    /\ text[1] = "\"" /\ text[Len(text)] = "\""
    /\ \A i \in 2..(Len(text) - 1) : text[i] # "\""

\* the text is a JSON object
IsJSONObject(text) ==
    /\ Len(text) >= 2
    /\ text[1] = "{" /\ text[Len(text)] = "}"
    /\ (Len(text) - 2) % 2 = 0
    /\ \A i \in 2..(Len(text) - 1) :
          IF i % 2 = 0 THEN text[i] \notin JSONScalars \cup {"{", "}", "\""}
          ELSE text[i] \in JSONScalars

\* checkValid: the scan json.Unmarshal makes before it decodes anything
IsValidJSON(text) ==
    \/ Len(text) = 1 /\ text[1] \in JSONScalars
    \/ IsJSONString(text)
    \/ IsJSONObject(text)

\* json.Marshal(v) of a field value; a nil pointer is null
Marshal(val) ==
    CASE val.isNil -> <<"null">>
      [] val.t \in {"int", "int32", "*int"} -> val.v
      [] val.t = "string" -> <<"\"">> \o val.v \o <<"\"">>
      [] val.t = "doc" -> <<"{", "A", val.v[1], "B", val.v[2], "}">>
      [] val.t = "struct" -> <<"{", "}">>

\* the members of a JSON object decoded into a doc one after the other: a
\* member whose value does not fit its field is skipped and the error kept,
\* the members before and after it are stored
RECURSIVE DecodeMembers(_, _)
DecodeMembers(members, r) ==
    IF members = <<>> THEN r
    ELSE LET key == members[1]
             value == members[2]
             rest == SubSeq(members, 3, Len(members))
             place == IF key = "A" THEN 1 ELSE IF key = "B" THEN 2 ELSE 0
         IN IF place = 0 \/ value = "null" THEN DecodeMembers(rest, r)
            ELSE IF value \in Digits
            THEN DecodeMembers(rest, [r EXCEPT !.val.v[place] = value])
            ELSE DecodeMembers(rest, [r EXCEPT !.err = TRUE])

\* json.Unmarshal(text, &target): the error and what target holds afterwards
Unmarshal(text, target) ==
    IF ~IsValidJSON(text) THEN [err |-> TRUE, val |-> target]
    ELSE IF text = <<"null">>
    THEN [err |-> FALSE, val |-> IF IsPtrType(target.t) THEN NilPtr(target.t) ELSE target]
    ELSE CASE target.t = "doc" ->
                IF IsJSONObject(text)
                THEN DecodeMembers(SubSeq(text, 2, Len(text) - 1), [err |-> FALSE, val |-> target])
                ELSE [err |-> TRUE, val |-> target]
           [] target.t = "struct" ->
                [err |-> ~IsJSONObject(text), val |-> target]
           [] target.t = "string" ->
                IF IsJSONString(text)
                THEN [err |-> FALSE, val |-> Val("string", SubSeq(text, 2, Len(text) - 1))]
                ELSE [err |-> TRUE, val |-> target]
           [] target.t \in {"int", "int32", "*int"} ->
                IF Len(text) = 1 /\ text[1] \in Digits
                THEN [err |-> FALSE, val |-> Val(target.t, text)]
                ELSE [err |-> TRUE, val |-> target]

\* ------------------------------------------------------------------------
\* Column.SetValue
\* ------------------------------------------------------------------------

\* the pointer type to typ
PtrTo(typ) == IF typ = "int" THEN "*int" ELSE "*"

\* valueReflected.Addr(): a pointer to the value
Addr(value) == [t |-> PtrTo(value.t), isNil |-> FALSE, v |-> value.v]

\* what a SetValue call yields: the error ("nil", "error", or "panic" when
\* reflect panics) and the fields of the object afterwards
SetResult(err, fields) == [err |-> err, fields |-> fields]

\* field.Set(x) on field i: panics unless x is assignable to the field's type
FieldSet(obj, i, x) ==
    IF AssignableTo(x.t, TypeDefs[obj.t].Fields[i].Type)
    THEN SetResult("nil", [obj.fields EXCEPT ![i] = [t |-> x.t, isNil |-> x.isNil, v |-> x.v]])
    ELSE SetResult("panic", obj.fields)

\* c.SetValue(object, value), the tests in the order of the variant: "code"
\* is the order of the source
SetValueIn(c, obj, value, variant) ==
    LET i == FieldByName(obj.t, c.FieldName)
        unchanged == obj.fields
    IN IF i = 0 THEN SetResult("panic", unchanged)
       ELSE
       LET field == obj.fields[i]
           fieldType == TypeDefs[obj.t].Fields[i].Type
           valueReflected == reflectValue(value)
       IN IF variant = "valueFirst" /\ ~valueReflected.valid THEN SetResult("nil", unchanged)
          ELSE IF ~CanSet(obj, c.FieldName) THEN SetResult("error", unchanged)
          ELSE IF variant # "noValidTest" /\ ~valueReflected.valid THEN SetResult("nil", unchanged)
          ELSE IF c.IsJSON
          THEN IF valueReflected.t = "NullString" /\ valueReflected.ok /\ Len(valueReflected.v) > 0
               THEN LET decoded == Unmarshal(valueReflected.v, field)
                        written == [obj.fields EXCEPT ![i] = decoded.val]
                    IN IF decoded.err THEN SetResult("error", written)
                       ELSE SetResult("nil", written)
               ELSE SetResult("nil", unchanged)
          ELSE IF AssignableTo(valueReflected.t, fieldType)
          THEN IF IsPtrType(fieldType) /\ valueReflected.canAddr
               THEN FieldSet(obj, i, Addr(valueReflected))
               ELSE FieldSet(obj, i, valueReflected)
          ELSE IF IsPtrType(fieldType)
          THEN IF valueReflected.canAddr
               THEN IF ElemType(fieldType) = valueReflected.t
                    THEN FieldSet(obj, i, Addr(valueReflected))
                    ELSE IF ~ConvertibleTo(valueReflected.t, ElemType(fieldType))
                    THEN SetResult("panic", unchanged)
                    ELSE LET convertedValue == Convert(valueReflected, ElemType(fieldType))
                         IN IF convertedValue.canAddr
                            THEN FieldSet(obj, i, Addr(convertedValue))
                            ELSE SetResult("nil", unchanged)
               ELSE SetResult("error", unchanged)
          ELSE IF ~ConvertibleTo(valueReflected.t, fieldType)
          THEN SetResult("panic", unchanged)
          ELSE FieldSet(obj, i, Convert(valueReflected, fieldType))

\* SetValue with the validity of the value tested before the field
SetValueValueFirst(c, obj, value) == SetValueIn(c, obj, value, "valueFirst")

\* SetValue without the test of valueReflected.IsValid()
SetValueNoValidTest(c, obj, value) == SetValueIn(c, obj, value, "noValidTest")

\* c.SetValue(object, value)
SetValue(c, obj, value) == SetValueIn(c, obj, value, "code")

\* the JSON texts a nullable text wrapper brings: objects that fit a doc, an
\* object with a member that does not fit, before or after one that does, a
\* text cut short, a string literal, null, and no text
JSONTexts ==
    { <<"{", "A", "1", "B", "2", "}">>,
      <<"{", "A", "1", "B", "true", "}">>,
      <<"{", "A", "true", "B", "2", "}">>,
      <<"{", "A", "1">>,
      <<"\"", "x", "\"">>,
      <<"null">>,
      <<>> }

\* the values callers pass to SetValue
Args ==
    { Arg("nil", FALSE, TRUE, <<>>, TRUE),
      Arg("int", TRUE, TRUE, <<>>, TRUE),
      Arg("int", FALSE, FALSE, <<"1">>, TRUE),
      Arg("int", TRUE, FALSE, <<"2">>, TRUE),
      Arg("int32", FALSE, FALSE, <<"1">>, TRUE),
      Arg("int32", TRUE, FALSE, <<"2">>, TRUE),
      Arg("string", FALSE, FALSE, <<"x">>, TRUE),
      Arg("NullString", FALSE, FALSE, <<"1">>, FALSE) }
    \cup { Arg("NullString", FALSE, FALSE, text, TRUE) : text \in JSONTexts }

\* the columns of the collection resolved for type t
ColumnsOfType(t) == GenerateUpTo(t, NumField(t)).elems

\* the columns of the collection resolved for the object's type
ObjectColumns == IF object = NoObject THEN {} ELSE Elems(ColumnsOfType(object.t))

\* a caller makes an object of a mapped type and passes it by reference or
\* by value
MakeObject(t, byRef) ==
    /\ object = NoObject
    /\ object' = NewObject(t, byRef)
    /\ UNCHANGED <<sets, lastSet, values, created, ccVars, metaVars, connVars, subVars, tagVars, evVars, reqVars, mainVars>>

\* err := c.SetValue(object, value) for a column of the object's type
CallSetValue(c, value) ==
    /\ object # NoObject
    /\ sets < MaxSets
    /\ sets' = sets + 1
    /\ LET r == SetValue(c, object, value)
       IN /\ object' = [object EXCEPT !.fields = r.fields]
          /\ lastSet' = [done |-> TRUE, col |-> c, value |-> value, byRef |-> object.byRef,
                         before |-> object.fields, after |-> r.fields, err |-> r.err]
    /\ UNCHANGED <<values, created, ccVars, metaVars, connVars, subVars, tagVars, evVars, reqVars, mainVars>>

\* ------------------------------------------------------------------------
\* ColumnValues, ColumnNames and GetValue
\* ------------------------------------------------------------------------

\* the nil interface value: the explicit null marker among the values
NilValue == [t |-> "nil", isNil |-> TRUE, v |-> <<>>]

\* one entry of ColumnValues: for a JSON column the text json.Marshal gives
\* for the field, nil when that text is null (keepNull: the text always);
\* else the field's value
ColumnValueIn(c, obj, keepNull) ==
    LET valueField == obj.fields[FieldByName(obj.t, c.FieldName)]
    IN IF c.IsJSON
       THEN LET result == Marshal(valueField)
            IN IF result # <<"null">> \/ keepNull THEN Val("string", result) ELSE NilValue
       ELSE valueField

\* ColumnValues that hands on the text null
ColumnValuesKeepsNull(cols, obj) ==
    [x \in 1..Len(cols) |-> ColumnValueIn(cols[x], obj, TRUE)]

\* cc.ColumnValues(instance) for the columns cols of cc
ColumnValues(cols, obj) ==
    [x \in 1..Len(cols) |-> ColumnValueIn(cols[x], obj, FALSE)]

\* cc.ColumnNames() for the columns cols and the prefix of cc
ColumnNames(cols, columnPrefix) ==
    [x \in 1..Len(cols) |-> columnPrefix \o cols[x].ColumnName]

\* c.GetValue(object): value.Field(c.Index)
GetValue(c, obj) == obj.fields[c.Index + 1]

\* cc.NotReadOnly().NotPrimaryKeys() for the columns cols
WriteColumnsOf(cols) == FilterLoop(FilterLoop(cols, "notReadOnly").elems, "notPrimaryKeys").elems

\* cc.Autos() for the columns cols
AutosOf(cols) == FilterLoop(cols, "autos").elems

\* the collections ColumnValues is called on: the resolved one and two of its
\* subsets
Selections == {"all", "write", "autos"}

SelectionOf(which, cols) ==
    CASE which = "all" -> cols
      [] which = "write" -> WriteColumnsOf(cols)
      [] which = "autos" -> AutosOf(cols)

\* values := cc.ColumnValues(object) and names := cc.ColumnNames()
CallColumnValues(which, columnPrefix) ==
    /\ object # NoObject
    /\ sets < MaxSets
    /\ sets' = sets + 1
    /\ LET cols == SelectionOf(which, ColumnsOfType(object.t))
       IN values' = [done |-> TRUE, cols |-> cols, fields |-> object.fields,
                     names |-> ColumnNames(cols, columnPrefix),
                     out |-> ColumnValues(cols, object)]
    /\ UNCHANGED <<object, lastSet, created, ccVars, metaVars, connVars, subVars, tagVars, evVars, reqVars, mainVars>>

\* ------------------------------------------------------------------------
\* Create: the INSERT of an object and the scan of the generated values back
\* into it
\* ------------------------------------------------------------------------

\* the value the database generates for a serial or auto column: none a
\* caller holds
GeneratedValue(typ) == Val(typ, <<"9">>)

\* the row the INSERT stores, one value per column of the table: the value
\* supplied for a column of the column list, else the generated value for an
\* auto column, else NULL
StoredRow(cols, writeCols, obj) ==
    [i \in 1..Len(cols) |->
        IF \E k \in 1..Len(writeCols) : writeCols[k] = cols[i]
        THEN ColumnValueIn(cols[i], obj, FALSE)
        ELSE IF cols[i].IsAuto THEN GeneratedValue(cols[i].FieldType)
        ELSE NilValue]

\* the returned values of the auto columns set on the object one after the
\* other with SetValue, each scanned into a variable and passed by address;
\* the first error ends it
RECURSIVE ScanBack(_, _, _, _)
ScanBack(autos, cols, row, obj) ==
    IF autos = <<>> THEN SetResult("nil", obj.fields)
    ELSE LET col == Head(autos)
             stored == row[CHOOSE i \in 1..Len(cols) : cols[i] = col]
             r == SetValue(col, obj, Arg(stored.t, TRUE, stored.isNil, stored.v, TRUE))
         IN IF r.err # "nil" THEN r
            ELSE ScanBack(Tail(autos), cols, row, [obj EXCEPT !.fields = r.fields])

\* Invocation.Create(object): INSERT with WriteColumns as column list and
\* value list, RETURNING the Autos columns when there are any, and on success
\* the returned values set on the object; ok: the statement succeeds
InvocationCreate(obj, ok) ==
    LET cols == ColumnsOfType(obj.t)
        writeCols == WriteColumnsOf(cols)
        autos == AutosOf(cols)
        row == StoredRow(cols, writeCols, obj)
        scanned == ScanBack(autos, cols, row, obj)
    IN IF ~ok
       THEN [done |-> TRUE, err |-> "error", cols |-> cols, before |-> obj.fields,
             after |-> obj.fields, row |-> <<>>, supplied |-> {}]
       ELSE [done |-> TRUE, err |-> scanned.err, cols |-> cols, before |-> obj.fields,
             after |-> scanned.fields, row |-> row,
             supplied |-> {writeCols[k].ColumnName : k \in 1..Len(writeCols)}]

\* err := dbc.Create(object): dbc.CreateInTx(object, nil), which is
\* dbc.Invoke(nil).Create(object)
CallCreate(ok) ==
    /\ object # NoObject
    /\ sets < MaxSets
    /\ sets' = sets + 1
    /\ created' = InvocationCreate(object, ok)
    /\ object' = [object EXCEPT !.fields = InvocationCreate(object, ok).after]
    /\ UNCHANGED <<lastSet, values, ccVars, metaVars, connVars, subVars, tagVars, evVars, reqVars, mainVars>>

\* nothing made, set, read or created yet
ObjInit ==
    /\ ObjIdle
    /\ EvIdle
    /\ ReqIdle
    /\ MainIdle
    /\ TagIdle
    /\ arrays = <<>>
    /\ colls = <<>>
    /\ own = <<>>
    /\ ops = 0
    /\ MetaIdle
    /\ SubIdle
    /\ ConnIdle
    /\ useStatementCache = FALSE
    /\ config = [set |-> TRUE, dsnOk |-> TRUE, schema |-> FALSE]
    /\ dbUp = TRUE

ObjNext ==
    \/ \E t \in Types, byRef \in BOOLEAN : MakeObject(t, byRef)
    \/ \E c \in ObjectColumns, value \in Args : CallSetValue(c, value)
    \/ \E which \in Selections, columnPrefix \in Prefixes : CallColumnValues(which, columnPrefix)
    \/ \E ok \in BOOLEAN : CallCreate(ok)

\* calls on a mapped object, one after the other
SpecObj == ObjInit /\ [][ObjNext]_vars

\* the place of the field the last SetValue call was for
SetPlace == FieldByName(object.t, lastSet.col.FieldName)

\* the field of the last SetValue call could be set
SetCanSet == lastSet.byRef /\ CanSet(object, lastSet.col.FieldName)

\* C21: whenever SetValue is called for a field that cannot be set, the
\* object having been passed by value, it returns an error and every field
\* holds what it held before.
C21_UnsettableFails ==
    (lastSet.done /\ ~lastSet.byRef) =>
        /\ lastSet.err = "error"
        /\ lastSet.after = lastSet.before

\* SetValue with a valid value was called on an object passed by value and
\* returned an error
C21_Witness ==
    /\ lastSet.done
    /\ ~lastSet.byRef
    /\ reflectValue(lastSet.value).valid
    /\ lastSet.err = "error"
    /\ lastSet.after = lastSet.before

\* C22 as stated: for every column and every object, SetValue with an
\* invalid source value (nil, or a nil pointer) returns no error and leaves
\* the object unchanged.
C22_InvalidIsNoOp ==
    (lastSet.done /\ ~reflectValue(lastSet.value).valid) =>
        /\ lastSet.err = "nil"
        /\ lastSet.after = lastSet.before

\* C22 amended: for every column and every object whose field can be set,
\* SetValue with an invalid source value returns no error and leaves the
\* object unchanged.
C22_InvalidIsNoOpWhenSettable ==
    (lastSet.done /\ SetCanSet /\ ~reflectValue(lastSet.value).valid) =>
        /\ lastSet.err = "nil"
        /\ lastSet.after = lastSet.before

\* SetValue was called with a nil pointer on an object passed by reference
\* that held a value in the field, and returned no error
C22_Witness ==
    /\ lastSet.done
    /\ SetCanSet
    /\ lastSet.value.isNil /\ lastSet.value.ptr
    /\ lastSet.err = "nil"
    /\ lastSet.before[SetPlace] # Zero(TypeDefs[object.t].Fields[SetPlace].Type)
    /\ lastSet.after = lastSet.before

\* C23: whenever SetValue returns an error, every field of the object holds
\* what it held before the call.
C23_ErrorLeavesObject ==
    (lastSet.done /\ lastSet.err = "error") => lastSet.after = lastSet.before

\* C24: for a column that is not JSON, a field that can be set and a valid
\* source value, a SetValue call that returns no error leaves the field
\* holding the source value, as it is, as a pointer to it, or converted to
\* the field's type.
C24_SuccessAssigns ==
    (/\ lastSet.done
     /\ ~lastSet.col.IsJSON
     /\ SetCanSet
     /\ reflectValue(lastSet.value).valid
     /\ lastSet.err = "nil") =>
        LET held == lastSet.after[SetPlace]
            fieldType == TypeDefs[object.t].Fields[SetPlace].Type
            target == IF IsPtrType(fieldType) THEN ElemType(fieldType) ELSE fieldType
        IN /\ ~held.isNil
           /\ held.v = Convert(reflectValue(lastSet.value), target).v

SampleObject(t) ==
    [t |-> t, byRef |-> TRUE,
     fields |-> [i \in 1..NumField(t) |->
                    Val(TypeDefs[t].Fields[i].Type, <<(<<"1", "2", "3", "4", "5">>)[i]>>)]]

\* the columns of instance c that came from the resolution of its type, not
\* from an Add of its owner
ResolvedColumns(c) == SelectSeq(Columns(c), LAMBDA col : col \notin NewColumns)

\* C29: every column of a resolved collection and of every collection
\* derived from it (subset, copy, ConcatWith) has as Index the zero-based
\* place, among all fields of the owning type, of the field named FieldName,
\* and GetValue gives what reading the field by name gives.
C29_IndexIsFieldPlace ==
    \A c \in Instances :
        \A i \in 1..Len(ResolvedColumns(c)) :
            LET col == ResolvedColumns(c)[i]
                t == own[c].origin
            IN /\ col.Index + 1 \in 1..NumField(t)
               /\ TypeDefs[t].Fields[col.Index + 1].Name = col.FieldName
               /\ col.Index + 1 = FieldByName(t, col.FieldName)
               /\ GetValue(col, SampleObject(t)) =
                     SampleObject(t).fields[FieldByName(t, col.FieldName)]

\* a ConcatWith result, whose receiver is a copy or a subset of the resolved
\* collection, holds a column whose field comes after an excluded or an
\* anonymous field of its type
C29_Witness ==
    \E r \in sret :
        /\ r.n = "concatWith"
        /\ \E i \in 1..Len(ResolvedColumns(r.inst)) :
              LET col == ResolvedColumns(r.inst)[i]
                  t == own[r.inst].origin
              IN \E k \in 1..col.Index :
                    \/ TypeDefs[t].Fields[k].Anonymous
                    \/ TypeDefs[t].Fields[k].Tag = <<"-">>
        /\ r.c # 1

\* C25: whenever Create succeeds on an object whose collection has Autos
\* columns, each of them was left out of the INSERT's column list, the row
\* holds the value the database generated for it, and the object's field
\* holds that value.
C25_CreateSetsGenerated ==
    (created.done /\ created.err = "nil") =>
        \A i \in 1..Len(created.cols) :
            LET col == created.cols[i]
            IN col.IsAuto =>
                  /\ col.ColumnName \notin created.supplied
                  /\ created.row[i] = GeneratedValue(col.FieldType)
                  /\ created.after[col.Index + 1] = GeneratedValue(col.FieldType)

\* ------------------------------------------------------------------------
\* Event emission: WithLogger, Invoke, fireEvent
\* ------------------------------------------------------------------------

\* the values of dbc.log: no logger, or the application's logger
Loggers == {Nil, "logger"}

\* the flags of the events: logger.Query
Flags == {"db.query"}

\* the optionalQueryLabel arguments: none, or one label
Labels == { <<>>, <<"get">> }

\* the errors an operation hands to fireEvent
OpErrs == {NoErr, ExceptionNew(Err("exec"))}

\* dbc.config.GetDatabase(): the database name of the configuration
GetDatabase(cfg) == IF cfg.schema THEN "app" ELSE "postgres"

\* logger.NewQueryEvent(query, elapsed).WithFlag(flag).WithDatabase(database)
\* .WithQueryLabel(queryLabel).WithEngine("postgres").WithErr(err)
NewQueryEvent(flag, query, database, queryLabel, err) ==
    [kind |-> "event", flag |-> flag, query |-> query, database |-> database,
     label |-> queryLabel, engine |-> "postgres", err |-> err]

\* what dbc.log.Error(err) hands the logger
ErrorEvent(err) ==
    [kind |-> "error", flag |-> "error", query |-> "", database |-> "",
     label |-> "", engine |-> "", err |-> err]

\* dbc.fireEvent(flag, query, elapsed, err, optionalQueryLabel...): nothing
\* with no logger; else the event is built, reading the database name through
\* dbc.config, which faults when dbc.config is nil, and triggered, and the
\* error, when there is one, is logged too. Nothing of dbc is assigned and
\* nothing returned.
fireEvent(dbcLog, dbcConfig, flag, query, err, optionalQueryLabel) ==
    IF dbcLog = Nil THEN [fault |-> FALSE, emitted |-> <<>>]
    ELSE IF ~dbcConfig.set THEN [fault |-> TRUE, emitted |-> <<>>]
    ELSE LET queryLabel == IF Len(optionalQueryLabel) > 0 THEN optionalQueryLabel[1] ELSE ""
             event == NewQueryEvent(flag, query, GetDatabase(dbcConfig), queryLabel, err)
         IN [fault |-> FALSE,
             emitted |-> IF err # NoErr THEN <<event, ErrorEvent(err)>> ELSE <<event>>]

\* the fields of the Connection an operation can read or write
ConnState == <<connection, statementCache, useStatementCache, config, log>>

\* dbc.WithLogger(log)
WithLogger(l) ==
    /\ log' = l
    /\ UNCHANGED <<events, invocation, ran, fires,
                   ccVars, metaVars, connVars, subVars, tagVars, objVars, reqVars, mainVars>>

\* dbc.WithConfig(cfg)
WithConfig(cfg) ==
    /\ config' = cfg
    /\ UNCHANGED <<connection, statementCache, useStatementCache, connectionLock, dbUp, pools, caches, stmts, txs, hist, view, cpc, cop, cloc, cres, calls, opens, closeCalls,
                   ccVars, metaVars, subVars, tagVars, objVars, evVars, reqVars, mainVars>>

\* dbc.Invoke(txs...): &Invocation{conn: dbc, tx: OptionalTx(txs...),
\* fireEvents: dbc.log != nil}
Invoke(tx) ==
    /\ invocation' = [made |-> TRUE, tx |-> tx, fireEvents |-> log # Nil]
    /\ UNCHANGED <<log, events, ran, fires,
                   ccVars, metaVars, connVars, subVars, tagVars, objVars, reqVars, mainVars>>

\* a call of dbc.fireEvent
CallFireEvent(flag, query, err, optionalQueryLabel) ==
    /\ fires < MaxFires
    /\ fires' = fires + 1
    /\ LET r == fireEvent(log, config, flag, query, err, optionalQueryLabel)
       IN /\ events' = events \o r.emitted
          /\ ran' = [done |-> TRUE, op |-> "fireEvent", log |-> log,
                     before |-> ConnState, after |-> ConnState,
                     returned |-> Outcome(r.fault, NoErr),
                     without |-> Outcome(FALSE, NoErr),
                     emitted |-> r.emitted]
    /\ UNCHANGED <<log, invocation,
                   ccVars, metaVars, connVars, subVars, tagVars, objVars, reqVars, mainVars>>

\* the error of a statement run on a Connection not opened before: that of
\* openNewSQLConnection for a nil config or a rejected DSN, else what the
\* database answers
StatementErr(dbcConfig, ok) ==
    IF ~dbcConfig.set THEN ExceptionNew(Err("configuration unset"))
    ELSE IF ~dbcConfig.dsnOk THEN ExceptionNew(Err("sql.Open"))
    ELSE IF ok THEN NoErr
    ELSE ExceptionNew(Err("exec"))

\* an operation of an Invocation: the statement is run, and when the
\* Invocation fires events its result is handed to fireEvent before it is
\* returned to the caller
InvocationExec(dbcLog, dbcConfig, inv, query, ok) ==
    LET err == StatementErr(dbcConfig, ok)
        r == IF inv.fireEvents
             THEN fireEvent(dbcLog, dbcConfig, "db.query", query, err, <<>>)
             ELSE [fault |-> FALSE, emitted |-> <<>>]
    IN [returned |-> Outcome(r.fault, IF r.fault THEN NoErr ELSE err),
        emitted |-> r.emitted]

\* an operation called on the Invocation of the last Invoke; without: what
\* the same operation returns on the Connection with no logger attached
CallExec(query, ok) ==
    /\ invocation.made
    /\ fires < MaxFires
    /\ fires' = fires + 1
    /\ LET r == InvocationExec(log, config, invocation, query, ok)
           plain == InvocationExec(Nil, config, [invocation EXCEPT !.fireEvents = FALSE],
                                   query, ok)
       IN /\ events' = events \o r.emitted
          /\ ran' = [done |-> TRUE, op |-> "Exec", log |-> log,
                     before |-> ConnState, after |-> ConnState,
                     returned |-> r.returned,
                     without |-> plain.returned,
                     emitted |-> r.emitted]
    /\ UNCHANGED <<log, invocation,
                   ccVars, metaVars, connVars, subVars, tagVars, objVars, reqVars, mainVars>>

\* the Connection New() returns: config: &Config{}, no logger
EvInit ==
    /\ EvIdle
    /\ ReqIdle
    /\ MainIdle
    /\ ObjIdle
    /\ TagIdle
    /\ arrays = <<>>
    /\ colls = <<>>
    /\ own = <<>>
    /\ ops = 0
    /\ MetaIdle
    /\ SubIdle
    /\ ConnIdle
    /\ useStatementCache = FALSE
    /\ config = [set |-> TRUE, dsnOk |-> TRUE, schema |-> FALSE]
    /\ dbUp = TRUE

EvNext ==
    \/ \E l \in Loggers : WithLogger(l)
    \/ \E cfg \in Configs : WithConfig(cfg)
    \/ \E tx \in {NoTx} : Invoke(tx)
    \/ \E flag \in Flags, query \in Statements, err \in OpErrs, optionalQueryLabel \in Labels :
           CallFireEvent(flag, query, err, optionalQueryLabel)
    \/ \E query \in Statements, ok \in BOOLEAN : CallExec(query, ok)

\* a Connection configured, observed and used by one caller
SpecEvent == EvInit /\ [][EvNext]_vars

\* C26: event emission never alters an operation's outcome: a fireEvent call
\* or an operation leaves the Connection's state as it was, hands back what the
\* same call hands back with no logger attached, and emits nothing when no
\* logger is attached.
C26_EmissionKeepsOutcome ==
    ran.done =>
        /\ ran.after = ran.before
        /\ ran.returned = ran.without
        /\ (ran.log = Nil => ran.emitted = <<>>)

\* ------------------------------------------------------------------------
\* Request: the url, its query string, and the http.Request built from it
\* ------------------------------------------------------------------------

\* the field names and the values of query strings and post data, in the
\* order Encode sorts the fields; none needs escaping
QueryFields == << <<"a">>, <<"b">> >>

QueryValues == { <<"1">>, <<"2">> }

\* the raw urls a caller sets
RawURLs ==
    { <<>>,
      <<"/", "p">>,
      <<"/", "p", "?", "a", "=", "1">>,
      <<"/", "p", "?", "b", "=", "2", "&", "a", "=", "1">> }

\* the post bodies a caller sets
Bodies == { <<>>, <<"x">> }

\* strings.Index(s, ch): the first place of ch in s, 0 when it is not there
IndexOf(s, ch) ==
    IF \E i \in 1..Len(s) : s[i] = ch
    THEN CHOOSE i \in 1..Len(s) : s[i] = ch /\ \A j \in 1..(i - 1) : s[j] # ch
    ELSE 0

\* strings.Split(s, sep)
RECURSIVE SplitOn(_, _)
SplitOn(s, sep) ==
    IF IndexOf(s, sep) = 0 THEN <<s>>
    ELSE <<SubSeq(s, 1, IndexOf(s, sep) - 1)>>
         \o SplitOn(SubSeq(s, IndexOf(s, sep) + 1, Len(s)), sep)

\* url.Values.Add(key, value): the value appended to the values of the key
ValuesAdd(vs, key, value) ==
    [k \in (DOMAIN vs) \cup {key} |->
        IF k = key
        THEN IF key \in DOMAIN vs THEN Append(vs[key], value) ELSE <<value>>
        ELSE vs[k]]

\* url.ParseQuery(query): a new url.Values holding, for every piece
\* key=value between the ampersands, the value under its key
RECURSIVE ParseQueryFrom(_, _)
ParseQueryFrom(pieces, vs) ==
    IF pieces = <<>> THEN vs
    ELSE LET piece == Head(pieces)
             eq == IndexOf(piece, "=")
             key == IF eq = 0 THEN piece ELSE SubSeq(piece, 1, eq - 1)
             value == IF eq = 0 THEN <<>> ELSE SubSeq(piece, eq + 1, Len(piece))
         IN IF piece = <<>> THEN ParseQueryFrom(Tail(pieces), vs)
            ELSE ParseQueryFrom(Tail(pieces), ValuesAdd(vs, key, value))

ParseQuery(query) == ParseQueryFrom(SplitOn(query, "&"), NoValuesFor)

\* u.Query(): the values parsed from u.RawQuery, a map made by the call
Query(u) == ParseQuery(u.RawQuery)

\* url.Values.Encode(): key=value for every value of every key, the keys in
\* sorted order, joined by ampersands
RECURSIVE EncodePairs(_, _, _)
EncodePairs(vs, keys, out) ==
    IF keys = <<>> THEN out
    ELSE IF Head(keys) \notin DOMAIN vs \/ vs[Head(keys)] = <<>>
    THEN EncodePairs(vs, Tail(keys), out)
    ELSE LET k == Head(keys)
             sep == IF out = <<>> THEN <<>> ELSE <<"&">>
             rest == [x \in DOMAIN vs |-> IF x = k THEN Tail(vs[k]) ELSE vs[x]]
         IN EncodePairs(rest, keys, out \o sep \o k \o <<"=">> \o Head(vs[k]))

Encode(vs) == EncodePairs(vs, QueryFields, <<>>)

\* url.ParseRequestURI(rawURL): an empty url is an error; else the path up
\* to the question mark and the raw query after it
ParseRequestURI(rawURL) ==
    IF rawURL = <<>> THEN [err |-> "empty url", url |-> [Path |-> <<>>, RawQuery |-> <<>>]]
    ELSE LET q == IndexOf(rawURL, "?")
         IN [err |-> "nil",
             url |-> IF q = 0 THEN [Path |-> rawURL, RawQuery |-> <<>>]
                     ELSE [Path |-> SubSeq(rawURL, 1, q - 1),
                           RawQuery |-> SubSeq(rawURL, q + 1, Len(rawURL))]]

\* u.String(): the path, and the raw query after a question mark when there
\* is one
URLString(u) ==
    IF u.RawQuery = <<>> THEN u.Path ELSE u.Path \o <<"?">> \o u.RawQuery

\* r.url.Query().Add(field, value): the value is added to the values Query()
\* made, which nothing reads afterwards; the url keeps its raw query
URLAfterAdd(u, field, value) ==
    [added |-> ValuesAdd(Query(u), field, value), url |-> u]

\* r.WithRawURL(rawURL): r.url = parsedURL unless the url does not parse
WithRawURL(rawURL) ==
    /\ reqCalls < MaxReqCalls
    /\ reqCalls' = reqCalls + 1
    /\ LET parsedURL == ParseRequestURI(rawURL)
       IN IF parsedURL.err # "nil"
          THEN UNCHANGED <<req, asked>>
          ELSE /\ req' = [req EXCEPT !.url = parsedURL.url]
               /\ asked' = {}
    /\ UNCHANGED <<sent, ccVars, metaVars, connVars, subVars, tagVars, objVars, evVars, mainVars>>

\* r.WithQueryString(field, value): r.url.Query().Add(field, value); the
\* values Query() returns are parsed anew from the raw query at every call,
\* and the url keeps its raw query
WithQueryString(field, value) ==
    /\ reqCalls < MaxReqCalls
    /\ reqCalls' = reqCalls + 1
    /\ req' = [req EXCEPT !.url = URLAfterAdd(req.url, field, value).url]
    /\ asked' = asked \cup {<<field, value>>}
    /\ UNCHANGED <<sent, ccVars, metaVars, connVars, subVars, tagVars, objVars, evVars, mainVars>>

\* r.WithPostData(field, value): r.postData.Add(field, value)
WithPostData(field, value) ==
    /\ reqCalls < MaxReqCalls
    /\ reqCalls' = reqCalls + 1
    /\ req' = [req EXCEPT !.postData = ValuesAdd(req.postData, field, value)]
    /\ UNCHANGED <<asked, sent, ccVars, metaVars, connVars, subVars, tagVars, objVars, evVars, mainVars>>

\* r.WithPostBody(body)
WithPostBody(body) ==
    /\ reqCalls < MaxReqCalls
    /\ reqCalls' = reqCalls + 1
    /\ req' = [req EXCEPT !.body = body]
    /\ UNCHANGED <<asked, sent, ccVars, metaVars, connVars, subVars, tagVars, objVars, evVars, mainVars>>

\* r.PostBody(): the body, else the encoded post data, else nothing
PostBody(r) ==
    IF Len(r.body) > 0 THEN r.body
    ELSE IF DOMAIN r.postData # {} THEN Encode(r.postData)
    ELSE <<>>

\* r.Request(): an error with both a body and post data; else the
\* http.Request made for r.URL().String() with r.PostBody() as body
Request(r) ==
    IF Len(r.body) > 0 /\ DOMAIN r.postData # {}
    THEN [done |-> TRUE, err |-> "multiple body sources", url |-> <<>>, body |-> <<>>]
    ELSE [done |-> TRUE, err |-> "nil", url |-> URLString(r.url), body |-> PostBody(r)]

\* req, err := r.Request(), as Response() calls it first
CallRequest ==
    /\ reqCalls < MaxReqCalls
    /\ reqCalls' = reqCalls + 1
    /\ sent' = Request(req)
    /\ UNCHANGED <<req, asked, ccVars, metaVars, connVars, subVars, tagVars, objVars, evVars, mainVars>>

\* the Request New() returns
ReqInit ==
    /\ ReqIdle
    /\ MainIdle
    /\ EvIdle
    /\ ObjIdle
    /\ TagIdle
    /\ arrays = <<>>
    /\ colls = <<>>
    /\ own = <<>>
    /\ ops = 0
    /\ MetaIdle
    /\ SubIdle
    /\ ConnIdle
    /\ useStatementCache = FALSE
    /\ config = [set |-> TRUE, dsnOk |-> TRUE, schema |-> FALSE]
    /\ dbUp = TRUE

ReqNext ==
    \/ \E rawURL \in RawURLs : WithRawURL(rawURL)
    \/ \E i \in 1..Len(QueryFields), value \in QueryValues : WithQueryString(QueryFields[i], value)
    \/ \E i \in 1..Len(QueryFields), value \in QueryValues : WithPostData(QueryFields[i], value)
    \/ \E body \in Bodies : WithPostBody(body)
    \/ CallRequest

\* a Request built and sent by one caller
SpecReq == ReqInit /\ [][ReqNext]_vars

\* the raw query of a url string: what follows its question mark
QueryOf(str) ==
    IF IndexOf(str, "?") = 0 THEN <<>> ELSE SubSeq(str, IndexOf(str, "?") + 1, Len(str))

\* the query string holds field=value
HasQueryValue(query, field, value) ==
    /\ field \in DOMAIN ParseQuery(query)
    /\ \E i \in 1..Len(ParseQuery(query)[field]) : ParseQuery(query)[field][i] = value

\* C28: after WithQueryString(field, value) the url of the http.Request that
\* Request() builds holds field=value in its query string.
C28_QueryStringSet ==
    (sent.done /\ sent.err = "nil") =>
        \A fv \in asked : HasQueryValue(QueryOf(sent.url), fv[1], fv[2])

\* ------------------------------------------------------------------------
\* The three locks together: goroutines that resolve types, open the pool
\* and prepare cached statements on one Connection
\* ------------------------------------------------------------------------

\* the name a goroutine has as caller of the Connection
CallerOf == [g \in Goroutines |->
               CHOOSE c \in Callers : (g = "g1" /\ c = "c1") \/ (g = "g2" /\ c = "c2")]

\* the types the goroutines resolve
LockTypes == {"t1", "t2"}

\* the statement the goroutines prepare, under either id
LockStatements == {"select 1"}

\* a goroutine runs one call at a time: it starts a resolution when it is in
\* no call of the Connection
ThreadResolve(g, t) ==
    /\ cpc[CallerOf[g]] = "idle"
    /\ mcalls[g] < MaxLockResolves
    /\ Resolve(g, t)

\* a goroutine outside a resolution calls dbc.Open()
ThreadOpen(g) ==
    /\ mpc[g] = "idle"
    /\ CallOpen(CallerOf[g])

\* a goroutine outside a resolution calls dbc.PrepareCached(id, statement, nil)
ThreadPrepareCached(g, id, statement) ==
    /\ mpc[g] = "idle"
    /\ CallPrepareCached(CallerOf[g], id, statement, NoTx)

\* a Connection with a usable configuration and statement caching enabled,
\* so that PrepareCached goes to the StatementCache; nothing resolved, no
\* call made
LockInit ==
    /\ ConnIdle
    /\ useStatementCache = TRUE
    /\ config = [set |-> TRUE, dsnOk |-> TRUE, schema |-> FALSE]
    /\ dbUp \in BOOLEAN
    /\ arrays = <<>>
    /\ colls = <<>>
    /\ own = <<>>
    /\ ops = 0
    /\ MetaIdle
    /\ SubIdle
    /\ TagIdle
    /\ ObjIdle
    /\ EvIdle
    /\ ReqIdle
    /\ MainIdle

LockNext ==
    \/ \E g \in Goroutines, t \in LockTypes : ThreadResolve(g, t)
    \/ \E g \in Goroutines : MetaLock(g)
    \/ \E g \in Goroutines : MetaCheck(g)
    \/ \E g \in Goroutines : MetaGenerateField(g)
    \/ \E g \in Goroutines : MetaStore(g)
    \/ \E g \in Goroutines : ThreadOpen(g)
    \/ \E p \in Callers : OpenCheck1(p)
    \/ \E p \in Callers : OpenLock(p)
    \/ \E p \in Callers : OpenCheck2(p)
    \/ \E p \in Callers, ok \in BOOLEAN : ExecPing(p, ok)
    \/ \E g \in Goroutines, id \in StmtIds, statement \in LockStatements :
           ThreadPrepareCached(g, id, statement)
    \/ \E p \in Callers : CacheRead(p)
    \/ \E p \in Callers : CacheLock(p)
    \/ \E p \in Callers : CacheLookup(p)
    \/ \E p \in Callers, ok \in BOOLEAN : CachePrepare(p, ok)

\* goroutines using the metadata cache and one Connection concurrently
SpecLocks == LockInit /\ [][LockNext]_vars

\* the locks goroutine g holds: metaCacheLock, dbc.connectionLock, and the
\* mutex of every StatementCache
HeldBy(g) ==
    (IF metaCacheLock = g THEN {"metaCacheLock"} ELSE {})
    \cup (IF connectionLock = CallerOf[g] THEN {"connectionLock"} ELSE {})
    \cup {<<"cache", c>> : c \in {k \in 1..Len(caches) : caches[k].lock = CallerOf[g]}}

\* the holder of the lock goroutine g stands at, Nil when it stands at none
\* or the lock is free
AwaitedHolder(g) ==
    IF mpc[g] = "lock" THEN metaCacheLock
    ELSE IF cpc[CallerOf[g]] = "open_lock" THEN connectionLock
    ELSE IF cpc[CallerOf[g]] = "cache_lock" THEN caches[cloc[CallerOf[g]].target].lock
    ELSE Nil

\* goroutine g stands at a Lock() call
AtLock(g) ==
    mpc[g] = "lock" \/ cpc[CallerOf[g]] \in {"open_lock", "cache_lock"}

\* the goroutine or caller named h is inside a call and not at a Lock()
Running(h) ==
    \/ h \in Goroutines /\ mpc[h] \in {"check", "generate"}
    \/ h \in Callers /\ cpc[h] \notin {"idle", "panic", "open_lock", "cache_lock"}

\* goroutine g is inside a call whose next step can be taken: it is running,
\* or the lock it stands at is free
CanGoOn(g) ==
    \/ Running(g)
    \/ Running(CallerOf[g])
    \/ AtLock(g) /\ AwaitedHolder(g) = Nil

\* C30: the three locks are independent: no goroutine holds more than one of
\* them, none stands at a Lock() while it holds one, and the lock a goroutine
\* stands at is free or held by a goroutine that is running and will release
\* it, so that the calls in progress can always go on.
C30_LocksIndependent ==
    /\ \A g \in Goroutines : Cardinality(HeldBy(g)) <= 1
    /\ \A g \in Goroutines : AtLock(g) => HeldBy(g) = {}
    /\ \A g \in Goroutines : AtLock(g) => (AwaitedHolder(g) = Nil \/ Running(AwaitedHolder(g)))
    /\ (\E g \in Goroutines : AtLock(g)) => \E h \in Goroutines : CanGoOn(h)

\* one goroutine holds metaCacheLock in the field loop while the other holds
\* the mutex of the StatementCache of the Connection a call opened before
C30_Witness ==
    \E g, h \in Goroutines :
        /\ g # h
        /\ metaCacheLock = g /\ mpc[g] = "generate"
        /\ cpc[CallerOf[h]] = "cache_prepare"
        /\ caches[cloc[CallerOf[h]].target].lock = CallerOf[h]
        /\ connection # NoPool

\* C31: a failed Open() leaves the Connection as it was: whenever no pool
\* handle is set and no caller is inside openNewSQLConnection, no
\* StatementCache is attached to the Connection either.
C31_FailedOpenLeavesUnset ==
    (connection = NoPool /\ \A p \in Callers : cpc[p] \notin {"exec_search_path", "exec_ping"}) =>
        statementCache = NoCache

\* C32: whenever PrepareCached is about to hand the call to
\* dbc.statementCache, the pool has been opened and the StatementCache is
\* there.
C32_CachedPrepareOpensFirst ==
    \A p \in Callers :
        (cop[p].name = "PrepareCached" /\ cpc[p] = "cache_read") =>
            /\ connection # NoPool
            /\ statementCache # NoCache

\* C33: a caller whose last call was a Close() that succeeded never runs a
\* driver call on the pool that Close closed, and its next Open() never
\* returns success with that pool as the Connection's handle.
C33_NoUseAfterClose ==
    [][\A p \in Callers :
          (cres[p].call.name = "Close" /\ cres[p].err = NoErr) =>
              /\ (cpc'[p] \in {"begin_tx", "db_prepare"} => cloc'[p].target # cres[p].val)
              /\ (cop[p].name = "Open" /\ cpc[p] # "idle" /\ cpc'[p] = "idle"
                  /\ cres'[p].err = NoErr)
                 => connection' # cres[p].val]_vars

\* C34: a Close() called on a Connection that no call has opened a pool for
\* does not fault, and the Connection stays without a pool.
C34_CloseUnopened ==
    \A p \in Callers :
        (cop[p].name = "Close" /\ opens = 0) =>
            /\ cpc[p] # "panic"
            /\ connection = NoPool

\* C35: two copies taken from the same source are independent of each other:
\* an Add or Remove on one leaves the column sequence and the HasColumn
\* answers of the other as they were, and in each copy HasColumn(name) is true
\* exactly when a column of that name is in its sequence.
C35_CopiesIndependent ==
    /\ [](\A c \in Instances :
             own[c].source # NoColl =>
                 \A n \in DOMAIN colls[c].lookup \cup own[c].names :
                     HasColumn(c, n) <=>
                         \E i \in 1..Len(Columns(c)) : Columns(c)[i].ColumnName = n)
    /\ [][\A c, d \in Instances :
             (/\ c # d
              /\ own[c].source # NoColl
              /\ own[c].source = own[d].source
              /\ own'[c].columns # own[c].columns) =>
                 /\ SliceElems(arrays', colls'[d].columns) = Columns(d)
                 /\ DOMAIN colls'[d].lookup = DOMAIN colls[d].lookup]_vars

\* the columns of elems that the documented condition of subset n selects,
\* in their order
SubsetNow(n, elems) ==
    IF n = "writeColumns" THEN SelectSeq(elems, IsWritten)
    ELSE SelectSeq(elems, LAMBDA col : Selects(n, col))

\* C36: derived subsets stay coherent with membership: whenever a call of a
\* filtering accessor or of WriteColumns() on a collection returns, after
\* whatever Add and accessor calls, the instance returned holds exactly the
\* columns of the collection's current sequence that the subset's condition
\* selects.
C36_SubsetsCoherent ==
    [][\A g \in SeqCallers :
          (/\ scall[g] # NoSCall
           /\ scall'[g] = NoSCall
           /\ scall[g].n \in FilterNames \cup {"writeColumns"}) =>
              SliceElems(arrays', colls'[acc'[g]].columns)
                  = SubsetNow(scall[g].n, SliceElems(arrays', colls'[scall[g].c].columns))]_vars

\* C37: every derived subset carries the collection's column prefix: for
\* every accessor call that returned, ColumnNames() of the instance returned
\* are its columns' names rendered with the prefix of the collection the
\* accessor was called on, UpdateColumns() included.
C37_SubsetsKeepPrefix ==
    \A r \in sret :
        r.n \in SubsetNames =>
            ColumnNames(Columns(r.inst), colls[r.inst].columnPrefix)
                = ColumnNames(Columns(r.inst), colls[r.c].columnPrefix)

\* C38: the MetaCache key is injective on mapped types: two resolutions of
\* distinct types never ran under the same cache key, and every resolution
\* returned a collection that was built for the type it resolved.
C38_KeyInjective ==
    /\ \A r1, r2 \in returned : r1.type # r2.type => r1.key # r2.key
    /\ \A r \in returned : own[r.coll].origin = r.type

\* ------------------------------------------------------------------------
\* main(): the web app is started in one goroutine; a second one waits for
\* an interrupt, shuts the app down and closes done; main waits for done
\* ------------------------------------------------------------------------

OtherVars == <<ccVars, metaVars, connVars, subVars, tagVars, objVars, evVars, reqVars>>

\* what app.Start() and app.Shutdown() return
AppErrs == {"nil", "failed"}

\* an interrupt signal is sent to the process: before signal.Notify its
\* default disposition ends the process; after it the signal is put into
\* quit without blocking, and dropped when the buffer of one is full
Interrupt ==
    /\ process = "running"
    /\ interrupts < MaxInterrupts
    /\ interrupts' = interrupts + 1
    /\ timeline' = Append(timeline, "interrupt")
    /\ IF notified
       THEN /\ quit' = IF Len(quit) < 1 THEN Append(quit, "interrupt") ELSE quit
            /\ UNCHANGED process
       ELSE /\ process' = "killed"
            /\ UNCHANGED quit
    /\ UNCHANGED <<mainPc, startPc, stopPc, done, notified, results, fatals, OtherVars>>

\* if err := configutil.Read(&cfg); !configutil.IsIgnored(err) { logger.FatalExit(err) }
ReadConfig(ignored) ==
    /\ process = "running"
    /\ mainPc = "read_config"
    /\ IF ignored
       THEN /\ mainPc' = "new_app"
            /\ UNCHANGED process
       ELSE /\ process' = "exit"
            /\ UNCHANGED mainPc
    /\ fatals' = IF ignored THEN fatals ELSE Append(fatals, "config")
    /\ UNCHANGED <<startPc, stopPc, quit, done, notified, interrupts, timeline, results, OtherVars>>

\* the logger and the app are made, the controller registered
NewApp ==
    /\ process = "running"
    /\ mainPc = "new_app"
    /\ mainPc' = "make_chans"
    /\ UNCHANGED <<startPc, stopPc, quit, done, notified, process, interrupts, timeline, results, fatals, OtherVars>>

\* done := make(chan bool); quit := make(chan os.Signal, 1)
MakeChans ==
    /\ process = "running"
    /\ mainPc = "make_chans"
    /\ done' = "open"
    /\ quit' = <<>>
    /\ mainPc' = "notify"
    /\ UNCHANGED <<startPc, stopPc, notified, process, interrupts, timeline, results, fatals, OtherVars>>

\* signal.Notify(quit, os.Interrupt)
Notify ==
    /\ process = "running"
    /\ mainPc = "notify"
    /\ notified' = TRUE
    /\ mainPc' = "go_start"
    /\ UNCHANGED <<startPc, stopPc, quit, done, process, interrupts, timeline, results, fatals, OtherVars>>

\* go func() { log.SyncFatalExit(app.Start()) }()
GoStart ==
    /\ process = "running"
    /\ mainPc = "go_start"
    /\ startPc' = "start"
    /\ mainPc' = "go_shutdown"
    /\ UNCHANGED <<stopPc, quit, done, notified, process, interrupts, timeline, results, fatals, OtherVars>>

\* go func() { <-quit; ...; close(done) }()
GoShutdown ==
    /\ process = "running"
    /\ mainPc = "go_shutdown"
    /\ stopPc' = "recv_quit"
    /\ mainPc' = "recv_done"
    /\ UNCHANGED <<startPc, quit, done, notified, process, interrupts, timeline, results, fatals, OtherVars>>

\* <-done: the receive returns once done is closed, and main() returns,
\* which ends the process
RecvDone ==
    /\ process = "running"
    /\ mainPc = "recv_done"
    /\ done = "closed"
    /\ mainPc' = "returned"
    /\ process' = "returned"
    /\ timeline' = Append(timeline, "main_return")
    /\ UNCHANGED <<startPc, stopPc, quit, done, notified, interrupts, results, fatals, OtherVars>>

\* app.Start() returns, with an error or, the server stopped, without
StartReturns(err) ==
    /\ process = "running"
    /\ startPc = "start"
    /\ startPc' = "sync_fatal_exit"
    /\ results' = [results EXCEPT !.start = err]
    /\ UNCHANGED <<mainPc, stopPc, quit, done, notified, process, interrupts, timeline, fatals, OtherVars>>

\* log.SyncFatalExit(...): the error is logged and the process exits
SyncFatalExit ==
    /\ process = "running"
    /\ startPc = "sync_fatal_exit"
    /\ process' = "exit"
    /\ fatals' = Append(fatals, results.start)
    /\ UNCHANGED <<mainPc, startPc, stopPc, quit, done, notified, interrupts, timeline, results, OtherVars>>

\* RecvQuit that does not wait for a signal
RecvQuitNoWait ==
    /\ process = "running"
    /\ stopPc = "recv_quit"
    /\ quit' = IF Len(quit) > 0 THEN Tail(quit) ELSE quit
    /\ stopPc' = "shutdown"
    /\ UNCHANGED <<mainPc, startPc, done, notified, process, interrupts, timeline, results, fatals, OtherVars>>

\* <-quit: the receive returns once a signal is in the channel
RecvQuit ==
    /\ process = "running"
    /\ stopPc = "recv_quit"
    /\ Len(quit) > 0
    /\ quit' = Tail(quit)
    /\ stopPc' = "shutdown"
    /\ UNCHANGED <<mainPc, startPc, done, notified, process, interrupts, timeline, results, fatals, OtherVars>>

\* app.Shutdown() is called
CallShutdown ==
    /\ process = "running"
    /\ stopPc = "shutdown"
    /\ stopPc' = "in_shutdown"
    /\ timeline' = Append(timeline, "shutdown_call")
    /\ UNCHANGED <<mainPc, startPc, quit, done, notified, process, interrupts, results, fatals, OtherVars>>

\* if err := app.Shutdown(); err != nil: Shutdown returns
ShutdownReturns(err) ==
    /\ process = "running"
    /\ stopPc = "in_shutdown"
    /\ stopPc' = IF err # "nil" THEN "sync_fatal" ELSE "close_done"
    /\ timeline' = Append(timeline, "shutdown_return")
    /\ results' = [results EXCEPT !.shutdown = err]
    /\ UNCHANGED <<mainPc, startPc, quit, done, notified, process, interrupts, fatals, OtherVars>>

\* log.SyncFatal(err): the error is logged
SyncFatal ==
    /\ process = "running"
    /\ stopPc = "sync_fatal"
    /\ stopPc' = "close_done"
    /\ fatals' = Append(fatals, results.shutdown)
    /\ UNCHANGED <<mainPc, startPc, quit, done, notified, process, interrupts, timeline, results, OtherVars>>

\* close(done)
CloseDone ==
    /\ process = "running"
    /\ stopPc = "close_done"
    /\ done' = "closed"
    /\ stopPc' = "end"
    /\ UNCHANGED <<mainPc, startPc, quit, notified, process, interrupts, timeline, results, fatals, OtherVars>>

\* the process at the start of main(), the Connection and the rest untouched
MainInit ==
    /\ MainIdle
    /\ ReqIdle
    /\ EvIdle
    /\ ObjIdle
    /\ TagIdle
    /\ arrays = <<>>
    /\ colls = <<>>
    /\ own = <<>>
    /\ ops = 0
    /\ MetaIdle
    /\ SubIdle
    /\ ConnIdle
    /\ useStatementCache = FALSE
    /\ config = [set |-> TRUE, dsnOk |-> TRUE, schema |-> FALSE]
    /\ dbUp = TRUE

\* the steps of main()
MainSteps ==
    \/ \E ignored \in BOOLEAN : ReadConfig(ignored)
    \/ NewApp
    \/ MakeChans
    \/ Notify
    \/ GoStart
    \/ GoShutdown
    \/ RecvDone

\* the steps of the goroutine that shuts the app down
StopSteps ==
    \/ RecvQuit
    \/ CallShutdown
    \/ \E err \in AppErrs : ShutdownReturns(err)
    \/ SyncFatal
    \/ CloseDone

MainNext ==
    \/ Interrupt
    \/ \E ignored \in BOOLEAN : ReadConfig(ignored)
    \/ NewApp
    \/ MakeChans
    \/ Notify
    \/ GoStart
    \/ GoShutdown
    \/ RecvDone
    \/ \E err \in AppErrs : StartReturns(err)
    \/ SyncFatalExit
    \/ RecvQuit
    \/ CallShutdown
    \/ \E err \in AppErrs : ShutdownReturns(err)
    \/ SyncFatal
    \/ CloseDone

\* the process from the start of main(), interrupted at any moment
SpecMain == MainInit /\ [][MainNext]_vars

\* the same with the scheduler letting main and the shutdown goroutine go on
\* whenever they can, and app.Shutdown() returning once called; no interrupt
\* has to arrive and app.Start() need not return
SpecMainFair ==
    MainInit /\ [][MainNext]_vars /\ WF_vars(MainSteps) /\ WF_vars(StopSteps)

\* the positions of event e in the timeline
TimesOf(e) == {i \in 1..Len(timeline) : timeline[i] = e}

\* main() returned only after an interrupt, a call of Shutdown after it and
\* the return of that call; Shutdown was not called before an interrupt
ReturnedInOrder ==
    /\ \A k \in TimesOf("shutdown_call") : \E i \in TimesOf("interrupt") : i < k
    /\ \A k \in TimesOf("main_return") :
         \E i \in TimesOf("interrupt"), c \in TimesOf("shutdown_call"),
            r \in TimesOf("shutdown_return") : i < c /\ c < r /\ r < k
    /\ (mainPc = "returned" \/ process = "returned") => TimesOf("main_return") # {}

\* C39: main() returns only after an interrupt signal was received and
\* app.Shutdown() was then called and has returned, Shutdown is never called
\* before an interrupt arrives, and, main and the shutdown goroutine being
\* scheduled fairly, an interrupt leads to main returning or the process
\* ending otherwise.
C39_ReturnsAfterShutdown ==
    /\ []ReturnedInOrder
    /\ (interrupts > 0) ~> (process # "running")

\* main() returned after two interrupts, the second dropped or taken while
\* the first was being handled
C39_Witness ==
    /\ process = "returned"
    /\ interrupts = MaxInterrupts
    /\ timeline[Len(timeline)] = "main_return"
    /\ TimesOf("shutdown_return") # {}
====
